---- MODULE Spec2Model ----
(***************************************************************************)
(* A model of make_catalog/build_catalog.py: the catalog pipeline that     *)
(* parses Messier rows and bright-star rows, adds the solar-system table,  *)
(* merges the three record lists by id and sorts the result.               *)
(* and of the observation logbook of app/app.py, which looks objects up in *)
(* a catalog and keeps observation rows in a database table.               *)
(*                                                                         *)
(* Representation of Python values                                         *)
(*   str            a sequence of characters; a character is a string of   *)
(*                  length one, or the atom "U+XXXX" for a character       *)
(*                  outside ASCII (the code point in hexadecimal)          *)
(*   Optional[T]    None is <<>>, a value v is Some(v) = <<v>>             *)
(*   float          an integer number of hundredths (Scale = 100); the     *)
(*                  inputs carry at most two fractional digits, so the     *)
(*                  arithmetic of the code is exact on them                *)
(*   dict           a function from keys (strings) to Optional values      *)
(*   JSON scalars   a JSON string or number is the text str() gives for it *)
(***************************************************************************)
EXTENDS Integers, Sequences, FiniteSets, TLC

(***************************************************************************)
(* Characters and strings                                                  *)
(***************************************************************************)
Chars(s) == [i \in 1..Len(s) |-> SubSeq(s, i, i)]

None == <<>>
Some(v) == <<v>>
Val(o) == o[1]

EmptyStr == <<>>

UpperLetters == Chars("ABCDEFGHIJKLMNOPQRSTUVWXYZ")
LowerLetters == Chars("abcdefghijklmnopqrstuvwxyz")
DigitChars == Chars("0123456789")
\* The printable ASCII characters in code-point order, from 32 (space).
AsciiChars ==
    Chars(" !\"#$%&'()*+,-./0123456789:;<=>?@ABCDEFGHIJKLMNOPQRSTUVWXYZ")
    \o Chars("[\\]^_") \o <<"U+0060">> \o Chars("abcdefghijklmnopqrstuvwxyz{|}~")
HexChars == Chars("0123456789ABCDEF")

IndexIn(c, seq) ==
    IF \E i \in 1..Len(seq) : seq[i] = c
    THEN CHOOSE i \in 1..Len(seq) : seq[i] = c
    ELSE 0

IsDigit(c) == IndexIn(c, DigitChars) # 0
DigitVal(c) == IndexIn(c, DigitChars) - 1
IsAsciiAlpha(c) == IndexIn(c, UpperLetters) # 0 \/ IndexIn(c, LowerLetters) # 0
\* str.strip() and the regular expressions' \s: white space.
IsSpace(c) == c \in {" ", "\t", "\n", "\r"}
\* A character outside ASCII is written "U+XXXX".
IsAtom(c) == Len(c) = 6
\* str.isalpha() on one character, and the \w of a str pattern: the letters
\* outside ASCII used here (Hangul syllables, U+AC00..U+D7A3) are letters too.
AtomCode(c) ==
    LET h(i) == IndexIn(SubSeq(c, i, i), HexChars) - 1
    IN  ((h(3) * 16 + h(4)) * 16 + h(5)) * 16 + h(6)
IsHangul(c) == IsAtom(c) /\ AtomCode(c) >= 44032 /\ AtomCode(c) <= 55203
IsAlpha(c) == IsAsciiAlpha(c) \/ IsHangul(c)
IsWordChar(c) == IsAlpha(c) \/ IsDigit(c) \/ c = "_"

\* ord(c), the order Python compares strings by.
Ord(c) ==
    IF IsAtom(c) THEN AtomCode(c)
    ELSE IF c = "\t" THEN 9
    ELSE IF c = "\n" THEN 10
    ELSE IF c = "\r" THEN 13
    ELSE 31 + IndexIn(c, AsciiChars)

LowerCh(c) ==
    LET i == IndexIn(c, UpperLetters) IN IF i = 0 THEN c ELSE LowerLetters[i]
UpperCh(c) ==
    LET i == IndexIn(c, LowerLetters) IN IF i = 0 THEN c ELSE UpperLetters[i]
Lower(s) == [i \in 1..Len(s) |-> LowerCh(s[i])]
Upper(s) == [i \in 1..Len(s) |-> UpperCh(s[i])]

RECURSIVE LStrip(_)
LStrip(s) == IF s # <<>> /\ IsSpace(s[1]) THEN LStrip(Tail(s)) ELSE s
RECURSIVE RStrip(_)
RStrip(s) ==
    IF s # <<>> /\ IsSpace(s[Len(s)]) THEN RStrip(SubSeq(s, 1, Len(s) - 1)) ELSE s
Strip(s) == RStrip(LStrip(s))

\* s.rstrip(".")
RECURSIVE RStripDots(_)
RStripDots(s) ==
    IF s # <<>> /\ s[Len(s)] = "." THEN RStripDots(SubSeq(s, 1, Len(s) - 1)) ELSE s

StartsWith(s, p) == Len(s) >= Len(p) /\ SubSeq(s, 1, Len(p)) = p
\* s[n:]
Drop(s, n) == SubSeq(s, n + 1, Len(s))
\* s.replace(a, b) for a single character a and a string b
RECURSIVE ReplaceCh(_, _, _)
ReplaceCh(s, a, b) ==
    IF s = <<>> THEN <<>>
    ELSE (IF s[1] = a THEN b ELSE <<s[1]>>) \o ReplaceCh(Tail(s), a, b)
\* s.replace(a, b) for a string a
RECURSIVE ReplaceStr(_, _, _)
ReplaceStr(s, a, b) ==
    IF s = <<>> THEN <<>>
    ELSE IF StartsWith(s, a) THEN b \o ReplaceStr(Drop(s, Len(a)), a, b)
    ELSE <<s[1]>> \o ReplaceStr(Tail(s), a, b)

\* Python's < on strings: by code point, a proper prefix first.
RECURSIVE StrLess(_, _)
StrLess(a, b) ==
    IF b = <<>> THEN FALSE
    ELSE IF a = <<>> THEN TRUE
    ELSE IF a[1] = b[1] THEN StrLess(Tail(a), Tail(b))
    ELSE Ord(a[1]) < Ord(b[1])

\* str(n) of an integer
RECURSIVE NatStr(_)
NatStr(n) == IF n < 10 THEN <<DigitChars[n + 1]>>
             ELSE NatStr(n \div 10) \o <<DigitChars[(n % 10) + 1]>>
IntStr(n) == IF n < 0 THEN <<"-">> \o NatStr(0 - n) ELSE NatStr(n)
\* int(s) of a run of digits
RECURSIVE DigitsVal(_)
DigitsVal(s) == IF s = <<>> THEN 0
                ELSE DigitsVal(SubSeq(s, 1, Len(s) - 1)) * 10 + DigitVal(s[Len(s)])
\* the length of the run of digits of s that starts at position i
RECURSIVE DigitRun(_, _)
DigitRun(s, i) == IF i <= Len(s) /\ IsDigit(s[i]) THEN 1 + DigitRun(s, i + 1) ELSE 0
\* the first position at or after i that is not white space
RECURSIVE SkipSpace(_, _)
SkipSpace(s, i) == IF i <= Len(s) /\ IsSpace(s[i]) THEN SkipSpace(s, i + 1) ELSE i

\* d.get(k)
Get(d, k) == IF k \in DOMAIN d THEN d[k] ELSE None
\* Python's truth value of an Optional[str]
Truthy(o) == o # None /\ Val(o) # EmptyStr
\* a or b
Or(a, b) == IF Truthy(a) THEN a ELSE b

(***************************************************************************)
(* The tables                                                              *)
(***************************************************************************)
\* KO_MAP: the curated English -> Korean names, as <<key, value>> pairs.
KO_MAP ==
    << <<Chars("Andromeda Galaxy"), <<"U+C548", "U+B4DC", "U+B85C", "U+BA54", "U+B2E4">> \o Chars(" ") \o <<"U+C740", "U+D558">> >>,
       <<Chars("Orion Nebula"), <<"U+C624", "U+B9AC", "U+C628">> \o Chars(" ") \o <<"U+B300", "U+C131", "U+C6B4">> >>,
       <<Chars("Pleiades"), <<"U+D50C", "U+B808", "U+C774", "U+C544", "U+B370", "U+C2A4">> \o Chars(" ") \o <<"U+C131", "U+B2E8">> >>,
       <<Chars("Lagoon Nebula"), <<"U+B77C", "U+AD70">> \o Chars(" ") \o <<"U+C131", "U+C6B4">> >>,
       <<Chars("Ring Nebula"), <<"U+B9C1">> \o Chars(" ") \o <<"U+C131", "U+C6B4">> >>,
       <<Chars("Dumbbell Nebula"), <<"U+B364", "U+BCA8">> \o Chars(" ") \o <<"U+C131", "U+C6B4">> >>,
       <<Chars("Hercules Globular Cluster"), <<"U+D5E4", "U+B77C", "U+D074", "U+B808", "U+C2A4">> \o Chars(" ") \o <<"U+AD6C", "U+C0C1", "U+C131", "U+B2E8">> >>,
       <<Chars("Omega Nebula"), <<"U+C624", "U+BA54", "U+AC00">> \o Chars(" ") \o <<"U+C131", "U+C6B4">> >>,
       <<Chars("Trifid Nebula"), <<"U+D2B8", "U+B9AC", "U+D53C", "U+B4DC">> \o Chars(" ") \o <<"U+C131", "U+C6B4">> >>,
       <<Chars("Sombrero Galaxy"), <<"U+C19C", "U+BE0C", "U+B808", "U+B85C">> \o Chars(" ") \o <<"U+C740", "U+D558">> >>,
       <<Chars("Sirius"), <<"U+C2DC", "U+B9AC", "U+C6B0", "U+C2A4">> >>,
       <<Chars("Canopus"), <<"U+CE74", "U+B178", "U+D478", "U+C2A4">> >>,
       <<Chars("Arcturus"), <<"U+C544", "U+D06C", "U+D22C", "U+B8E8", "U+C2A4">> >>,
       <<Chars("Vega"), <<"U+BCA0", "U+AC00">> >>,
       <<Chars("Capella"), <<"U+CE74", "U+D3A0", "U+B77C">> >>,
       <<Chars("Rigel"), <<"U+B9AC", "U+AC94">> >>,
       <<Chars("Procyon"), <<"U+D504", "U+B85C", "U+D0A4", "U+C628">> >>,
       <<Chars("Achernar"), <<"U+C544", "U+CF00", "U+B974", "U+B098", "U+B974">> >>,
       <<Chars("Betelgeuse"), <<"U+BCA0", "U+D154", "U+C9C0", "U+C6B0", "U+C2A4">> >>,
       <<Chars("Altair"), <<"U+C54C", "U+D0C0", "U+C774", "U+B974">> >>,
       <<Chars("Deneb"), <<"U+B370", "U+B124", "U+BE0C">> >>,
       <<Chars("Polaris"), <<"U+D3F4", "U+B77C", "U+B9AC", "U+C2A4">> >>,
       <<Chars("Rigel Kentaurus"), <<"U+B9AC", "U+AC94">> \o Chars(" ") \o <<"U+CF00", "U+D0C0", "U+C6B0", "U+B8E8", "U+C2A4">> >>,
       <<Chars("Aldebaran"), <<"U+C54C", "U+B370", "U+BC14", "U+B780">> >>,
       <<Chars("Antares"), <<"U+C548", "U+D0C0", "U+B808", "U+C2A4">> >>,
       <<Chars("Pollux"), <<"U+D3F4", "U+B8E9", "U+C2A4">> >>,
       <<Chars("Fomalhaut"), <<"U+D3EC", "U+B9D0", "U+D558", "U+C6B0", "U+D2B8">> >>,
       <<Chars("Mimosa"), <<"U+BBF8", "U+BAA8", "U+C0AC">> >>,
       <<Chars("Regulus"), <<"U+B808", "U+AD74", "U+B8E8", "U+C2A4">> >>,
       <<Chars("Bellatrix"), <<"U+BCA8", "U+B77C", "U+D2B8", "U+B9AD", "U+C2A4">> >>,
       <<Chars("Elnath"), <<"U+C5D8", "U+B098", "U+C2A4">> >>,
       <<Chars("Alnilam"), <<"U+C54C", "U+B2D0", "U+B78C">> >>,
       <<Chars("Alnair"), <<"U+C54C", "U+B098", "U+C774", "U+B974">> >>,
       <<Chars("Alioth"), <<"U+C54C", "U+B9AC", "U+C624", "U+C2A4">> >>,
       <<Chars("Mirfak"), <<"U+BBF8", "U+B974", "U+D30D">> >>,
       <<Chars("Alkaid"), <<"U+C54C", "U+CE74", "U+C774", "U+B4DC">> >>,
       <<Chars("Peacock"), <<"U+D53C", "U+CF55">> \o Chars(", ") \o <<"U+ACF5", "U+C791">> >>,
       <<Chars("Mirzam"), <<"U+BBF8", "U+B974", "U+C7A0">> >> >>

\* SOLAR_SYSTEM: the fixed (English, Korean) pairs.
SOLAR_SYSTEM ==
    << <<Chars("Mercury"), <<"U+C218", "U+C131">> >>,
       <<Chars("Venus"), <<"U+AE08", "U+C131">> >>,
       <<Chars("Earth"), <<"U+C9C0", "U+AD6C">> >>,
       <<Chars("Mars"), <<"U+D654", "U+C131">> >>,
       <<Chars("Jupiter"), <<"U+BAA9", "U+C131">> >>,
       <<Chars("Saturn"), <<"U+D1A0", "U+C131">> >>,
       <<Chars("Uranus"), <<"U+CC9C", "U+C655", "U+C131">> >>,
       <<Chars("Neptune"), <<"U+D574", "U+C655", "U+C131">> >>,
       <<Chars("Pluto"), <<"U+BA85", "U+C655", "U+C131">> >>,
       <<Chars("Moon"), <<"U+B2EC">> >>,
       <<Chars("Ganymede"), <<"U+AC00", "U+B2C8", "U+BA54", "U+B370">> >>,
       <<Chars("Io"), <<"U+C774", "U+C624">> >>,
       <<Chars("Callisto"), <<"U+CE7C", "U+B9AC", "U+C2A4", "U+D1A0">> >>,
       <<Chars("Europa"), <<"U+C720", "U+B85C", "U+D30C">> >>,
       <<Chars("Titan"), <<"U+D0C0", "U+C774", "U+D0C4">> >> >>

KO_MAP_has(n) == \E i \in 1..Len(KO_MAP) : KO_MAP[i][1] = n
\* KO_MAP.get(n)
KO_MAP_get(n) ==
    IF KO_MAP_has(n)
    THEN Some(KO_MAP[CHOOSE i \in 1..Len(KO_MAP) : KO_MAP[i][1] = n][2])
    ELSE None

(***************************************************************************)
(* Utilities                                                               *)
(***************************************************************************)
\* The .2f of the coordinate formats: numbers are counted in hundredths.
Scale == 100

\* The characters norm_str replaces, and what it replaces each with.
NormPairs ==
    << <<"U+2212", "-">>, <<"U+2013", "-">>, <<"U+2014", "-">>,
       <<"U+00BA", "U+00B0">>, <<"U+2019", "'">>, <<"U+201C", "\"">>,
       <<"U+201D", "\"">>, <<"U+2033", "\"">> >>
NormCh(c) ==
    IF \E i \in 1..Len(NormPairs) : NormPairs[i][1] = c
    THEN NormPairs[CHOOSE i \in 1..Len(NormPairs) : NormPairs[i][1] = c][2]
    ELSE c
\* norm_str(x): None for None and for a blank text, else the trimmed text with
\* the punctuation variants replaced.
norm_str(x) ==
    IF x = None THEN None
    ELSE LET s == Strip(Val(x))
         IN  IF s = EmptyStr THEN None
             ELSE Some([i \in 1..Len(s) |-> NormCh(s[i])])

\* The value, in hundredths, of the decimal text d+ or d+.d* or .d+ (at most
\* two fractional digits count: the inputs have no more).
DecValue(ip, fp) ==
    DigitsVal(ip) * Scale
    + (IF Len(fp) = 0 THEN 0
       ELSE IF Len(fp) = 1 THEN DigitVal(fp[1]) * 10
       ELSE DigitVal(fp[1]) * 10 + DigitVal(fp[2]))
\* float(t): Some(value) or None when float raises. The texts of the model are
\* made of an optional sign, digits and one optional point (no exponent, no
\* "inf", no "nan").
PyFloat(t) ==
    LET u == Strip(t)
        neg == u # <<>> /\ u[1] \in {"-", "+"}
        isNeg == u # <<>> /\ u[1] = "-"
        b == IF neg THEN Tail(u) ELSE u
        n1 == DigitRun(b, 1)
        hasDot == n1 < Len(b) /\ b[n1 + 1] = "."
        n2 == IF hasDot THEN DigitRun(b, n1 + 2) ELSE 0
        used == n1 + (IF hasDot THEN 1 + n2 ELSE 0)
        v == DecValue(SubSeq(b, 1, n1), SubSeq(b, n1 + 2, n1 + 1 + n2))
    IN  IF n1 + n2 >= 1 /\ used = Len(b)
        THEN Some(IF isNeg THEN 0 - v ELSE v)
        ELSE None
\* float_or_none(x)
float_or_none(x) ==
    IF x = None THEN None
    ELSE IF Strip(Val(x)) = EmptyStr THEN None
    ELSE IF Lower(Val(x)) = Chars("none") THEN None
    ELSE PyFloat(ReplaceCh(Val(x), "+", <<>>))

\* f"{n:02d}"
Fmt02d(n) ==
    IF n < 0 THEN <<"-">> \o NatStr(0 - n)
    ELSE IF n < 10 THEN <<"0">> \o NatStr(n)
    ELSE NatStr(n)
\* f"{s:05.2f}" of s hundredths
Fmt052f(s) ==
    LET a == IF s < 0 THEN 0 - s ELSE s
        frac == <<DigitChars[((a % Scale) \div 10) + 1], DigitChars[(a % 10) + 1]>>
        body == NatStr(a \div Scale) \o <<".">> \o frac
    IN  IF s < 0 THEN <<"-">> \o body
        ELSE IF Len(body) < 5 THEN <<"0">> \o body
        ELSE body
hms_to_str(h, m, s) == Fmt02d(h) \o <<":">> \o Fmt02d(m) \o <<":">> \o Fmt052f(s)
dms_to_str(sign, d, m, s) ==
    <<(IF sign >= 0 THEN "+" ELSE "-")>>
    \o Fmt02d(d) \o <<":">> \o Fmt02d(m) \o <<":">> \o Fmt052f(s)

\* first(*vals): the first value that is neither None nor a blank string.
RECURSIVE first(_)
first(vals) ==
    IF vals = <<>> THEN None
    ELSE IF Head(vals) = None \/ Strip(Val(Head(vals))) = EmptyStr
         THEN first(Tail(vals))
    ELSE Head(vals)

(***************************************************************************)
(* The state of one run of main                                            *)
(***************************************************************************)
VARIABLES
    pc,         \* the position of main
    args,       \* the two inputs as loaded, and the flags
    hangulize,  \* the external transliteration library: "missing", "raises" or "ok"
    messier,    \* the records of normalize_messier_simple
    bright,     \* the records of normalize_bsc5p_known_schema
    solar,      \* the records of build_solar_bodies
    idx,        \* the number of items the merge loop has processed
    by_id,      \* the merge dict, as its <<key, record>> entries in insertion order
    out,        \* the output list
    file,       \* the content of the output path: None until it is written
    observations,         \* app.py: the rows of the table observations, in insertion order
    sqlite_sequence,      \* app.py: the last id AUTOINCREMENT has given
    session_state,        \* app.py: st.session_state
    object_search_input   \* app.py: the text of the search box
\* The state of the logbook, which main leaves alone.
logbook == <<observations, sqlite_sequence, session_state, object_search_input>>
\* The state of main, which the logbook leaves alone.
pipeline == <<pc, args, hangulize, messier, bright, solar, idx, by_id, out, file>>
vars == <<pc, args, hangulize, messier, bright, solar, idx, by_id, out, file,
          observations, sqlite_sequence, session_state, object_search_input>>

\* st.session_state as the first run of the script sets it (lines 19-28); the
\* date picker shows the day of the run.
today == "2025-01-02"
InitialSession ==
    [editing |-> None, found_object |-> None, current_page |-> 0,
     selected_date |-> None, date_picker |-> today]
\* The logbook before the app has run: an empty table, a new session.
LogbookIdle ==
    /\ observations = <<>>
    /\ sqlite_sequence = 0
    /\ session_state = InitialSession
    /\ object_search_input = <<>>

(***************************************************************************)
(* Transliteration                                                         *)
(***************************************************************************)
\* What the library returns for a letter when it works: one syllable per
\* letter, whatever its case; other characters are kept.
HangulOf ==
    << "U+C544", "U+BE0C", "U+D06C", "U+B4DC", "U+C5D0", "U+D504", "U+ADF8",
       "U+D750", "U+C774", "U+C9C0", "U+CE74", "U+B974", "U+BBC0", "U+B290",
       "U+C624", "U+D53C", "U+CFE0", "U+B9AC", "U+C2A4", "U+D2B8", "U+C6B0",
       "U+BE44", "U+C6CC", "U+C2A4", "U+C57C", "U+C988" >>
\* hangulize(t, English): Some(text), or None when the call raises.
hangulize_call(t) ==
    IF hangulize = "raises" THEN None
    ELSE Some([i \in 1..Len(t) |->
                 IF IndexIn(LowerCh(t[i]), LowerLetters) # 0
                 THEN HangulOf[IndexIn(LowerCh(t[i]), LowerLetters)]
                 ELSE t[i]])

\* [t for t in re.split(r"\s*[-\s]\s*", txt) if t]: the maximal runs of
\* characters that are neither white space nor a hyphen.
RECURSIVE SplitTokens(_, _)
SplitTokens(s, cur) ==
    LET done == IF cur = <<>> THEN <<>> ELSE <<cur>>
    IN  IF s = <<>> THEN done
        ELSE IF IsSpace(s[1]) \/ s[1] = "-" THEN done \o SplitTokens(Tail(s), <<>>)
        ELSE SplitTokens(Tail(s), Append(cur, s[1]))

RECURSIVE Join(_)
Join(ss) == IF ss = <<>> THEN <<>> ELSE Head(ss) \o Join(Tail(ss))

\* repl: the letter groups replaced first, in this order
simple_repl ==
    << << <<"p", "h">>, <<"U+D504">> >>, << <<"c", "h">>, <<"U+CE58">> >>, << <<"s", "h">>, <<"U+C2DC">> >>, << <<"t", "h">>, <<"U+C2A4">> >>,
       << <<"g", "h">>, <<"U+ADF8">> >>, << <<"c", "k">>, <<"U+D06C">> >>, << <<"q", "u">>, <<"U+CFE0">> >>, << <<"x">>, <<"U+D06C", "U+C2A4">> >>,
       << <<"c", "e">>, <<"U+C2A4">> >>, << <<"c", "i">>, <<"U+C2DC">> >>, << <<"g", "e">>, <<"U+C9C0">> >>, << <<"g", "i">>, <<"U+C9C0">> >> >>
\* vowel: one or two letters
simple_vowel ==
    << << <<"a">>, <<"U+C544">> >>, << <<"e">>, <<"U+C5D0">> >>, << <<"i">>, <<"U+C774">> >>, << <<"o">>, <<"U+C624">> >>,
       << <<"u">>, <<"U+C6B0">> >>, << <<"y">>, <<"U+C774">> >>, << <<"a", "a">>, <<"U+C544">> >>, << <<"e", "e">>, <<"U+C774">> >>,
       << <<"o", "o">>, <<"U+C6B0">> >>, << <<"a", "i">>, <<"U+C544", "U+C774">> >>, << <<"a", "u">>, <<"U+C544", "U+C6B0">> >>, << <<"e", "i">>, <<"U+C5D0", "U+C774">> >>,
       << <<"o", "u">>, <<"U+C624", "U+C6B0">> >> >>
\* cons
simple_cons ==
    << << <<"b">>, <<"U+BE0C">> >>, << <<"c">>, <<"U+D06C">> >>, << <<"d">>, <<"U+B4DC">> >>, << <<"f">>, <<"U+D504">> >>,
       << <<"g">>, <<"U+ADF8">> >>, << <<"h">>, <<"U+D750">> >>, << <<"j">>, <<"U+C9C0">> >>, << <<"k">>, <<"U+D06C">> >>,
       << <<"l">>, <<"U+B974">> >>, << <<"m">>, <<"U+BBC0">> >>, << <<"n">>, <<"U+B290">> >>, << <<"p">>, <<"U+D504">> >>,
       << <<"q">>, <<"U+CFE0">> >>, << <<"r">>, <<"U+B974">> >>, << <<"s">>, <<"U+C2A4">> >>, << <<"t">>, <<"U+D2B8">> >>,
       << <<"v">>, <<"U+BE0C">> >>, << <<"w">>, <<"U+C6B0">> >>, << <<"z">>, <<"U+C988">> >> >>

\* d.get(key) on a table of <<key, value>> pairs
PairGet(table, key) ==
    IF \E i \in 1..Len(table) : table[i][1] = key
    THEN Some(table[CHOOSE i \in 1..Len(table) : table[i][1] = key][2])
    ELSE None

\* re.sub(r"[^A-Za-z0-9\s\-]", " ", name)
simple_clean(name) ==
    [i \in 1..Len(name) |->
       IF IsAsciiAlpha(name[i]) \/ IsDigit(name[i]) \/ IsSpace(name[i])
          \/ name[i] = "-"
       THEN name[i] ELSE " "]

\* for a, b in repl: lw = re.sub(a, b, lw), from the k-th pair on
RECURSIVE simple_replace(_, _)
simple_replace(lw, k) ==
    IF k > Len(simple_repl) THEN lw
    ELSE simple_replace(ReplaceStr(lw, simple_repl[k][1], simple_repl[k][2]),
                        k + 1)

\* cons.get(ch, ch) for a letter, the character itself otherwise
simple_other(ch) ==
    IF IsAlpha(ch) /\ PairGet(simple_cons, <<ch>>) # None
    THEN Val(PairGet(simple_cons, <<ch>>))
    ELSE <<ch>>

\* The while loop over lw: a two-letter vowel first, then one character.
RECURSIVE simple_syllables(_)
simple_syllables(lw) ==
    IF lw = <<>> THEN <<>>
    ELSE IF Len(lw) >= 2 /\ PairGet(simple_vowel, SubSeq(lw, 1, 2)) # None
    THEN Val(PairGet(simple_vowel, SubSeq(lw, 1, 2)))
         \o simple_syllables(Drop(lw, 2))
    ELSE IF PairGet(simple_vowel, <<lw[1]>>) # None
    THEN Val(PairGet(simple_vowel, <<lw[1]>>)) \o simple_syllables(Tail(lw))
    ELSE simple_other(lw[1]) \o simple_syllables(Tail(lw))

\* eng_to_hangul_simple(name): the rule-based mapper. No function calls it.
eng_to_hangul_simple(name) ==
    LET tokens == SplitTokens(simple_clean(name), <<>>)
    IN  Join([i \in 1..Len(tokens) |->
                simple_syllables(simple_replace(Lower(tokens[i]), 1))])

\* eng_to_hangul(name), in a version that falls back to the rule-based
\* mapper when the library is missing or fails on a token
eng_to_hangul_with_mapper(name) ==
    IF name = EmptyStr THEN EmptyStr
    ELSE IF hangulize = "missing" THEN eng_to_hangul_simple(name)
    ELSE LET txt == Strip(name)
             tokens == SplitTokens(txt, <<>>)
         IN  IF txt = EmptyStr THEN EmptyStr
             ELSE Join([i \in 1..Len(tokens) |->
                          IF hangulize_call(tokens[i]) = None
                          THEN eng_to_hangul_simple(tokens[i])
                          ELSE Val(hangulize_call(tokens[i]))])

\* eng_to_hangul(name)
eng_to_hangul(name) ==
    IF name = EmptyStr THEN EmptyStr
    ELSE IF hangulize = "missing" THEN name
    ELSE LET txt == Strip(name)
             tokens == SplitTokens(txt, <<>>)
         IN  IF txt = EmptyStr THEN EmptyStr
             ELSE Join([i \in 1..Len(tokens) |->
                          IF hangulize_call(tokens[i]) = None THEN tokens[i]
                          ELSE Val(hangulize_call(tokens[i]))])

\* The failures that happen inside eng_to_hangul(name): the import of the
\* library fails, or the library raises on a token.
eng_to_hangul_failures(name) ==
    IF name = EmptyStr THEN {}
    ELSE IF hangulize = "missing" THEN {"import"}
    ELSE IF hangulize = "raises" /\ SplitTokens(Strip(name), <<>>) # <<>> THEN {"call"}
    ELSE {}
\* The failures an except clause of eng_to_hangul catches.
eng_to_hangul_caught == {"import", "call"}
\* Whether eng_to_hangul(name) raises, in a version without the except
\* clause around the import.
eng_to_hangul_raises_on_import(name) == eng_to_hangul_failures(name) \ {"call"} # {}
\* Whether eng_to_hangul(name) raises.
eng_to_hangul_raises(name) == eng_to_hangul_failures(name) \ eng_to_hangul_caught # {}

\* Whether KO_MAP.get(n) or eng_to_hangul(n) raises: the call is made for the
\* names outside the table only.
ko_name_raises(n) == ~Truthy(KO_MAP_get(n)) /\ eng_to_hangul_raises(n)
\* KO_MAP.get(n) or eng_to_hangul(n), in a version that leaves the table out
ko_name_transliterated(n) == eng_to_hangul(n)
\* KO_MAP.get(n) or eng_to_hangul(n)
ko_name(n) ==
    IF Truthy(KO_MAP_get(n)) THEN Val(KO_MAP_get(n)) ELSE eng_to_hangul(n)

(***************************************************************************)
(* Messier rows                                                            *)
(***************************************************************************)
MinOf(S) == CHOOSE m \in S : \A n \in S : m <= n

\* MESSIER_ID_RE matched at position p: Some(the digits) or None.
\*   \bM\s*([0-9]{1,3})\b, ignoring case
\* the digits, tried at q, n being the length of the run of digits there
MESSIER_ID_RE_digits(s, q, n) ==
    IF n >= 1 /\ n <= 3 /\ (q + n > Len(s) \/ ~IsWordChar(s[q + n]))
    THEN Some(SubSeq(s, q, q + n - 1))
    ELSE None
\* MESSIER_ID_RE matched at position p, in a version without the word boundary
\* before the letter.
MESSIER_ID_RE_at_unanchored(s, p) ==
    IF LowerCh(s[p]) = "m"
    THEN MESSIER_ID_RE_digits(s, SkipSpace(s, p + 1), DigitRun(s, SkipSpace(s, p + 1)))
    ELSE None
MESSIER_ID_RE_at(s, p) ==
    IF LowerCh(s[p]) = "m" /\ (p = 1 \/ ~IsWordChar(s[p - 1]))
    THEN MESSIER_ID_RE_digits(s, SkipSpace(s, p + 1), DigitRun(s, SkipSpace(s, p + 1)))
    ELSE None
\* MESSIER_ID_RE.search(s): the leftmost match.
MESSIER_ID_RE_search(s) ==
    LET ps == {p \in 1..Len(s) : MESSIER_ID_RE_at(s, p) # None}
    IN  IF ps = {} THEN None ELSE MESSIER_ID_RE_at(s, MinOf(ps))

\* [0-9]{1,2} at position i: the position after it, 0 for no match. The
\* pattern always goes on with a character that is no digit, so of a longer
\* run of digits only the first two can match.
IntTokEndOf(i, n) == IF n = 0 THEN 0 ELSE IF n >= 2 THEN i + 2 ELSE i + 1
IntTokEnd(s, i) == IntTokEndOf(i, DigitRun(s, i))
\* (?:\.[0-9]+)? at position j: the position after it (j when it matches nothing).
FracEndOf(j, f) == IF f > 0 THEN j + 1 + f ELSE j
FracEnd(s, j) ==
    FracEndOf(j, IF j <= Len(s) /\ s[j] = "." THEN DigitRun(s, j + 1) ELSE 0)
\* [0-9]{1,2}(?:\.[0-9]+)? at position i: the position after it, 0 for no match.
NumTokEndFrom(s, j) == IF j = 0 THEN 0 ELSE FracEnd(s, j)
NumTokEnd(s, i) == NumTokEndFrom(s, IntTokEnd(s, i))
\* float() of the text such a token matched
NumTokValueOf(t, n) == DecValue(SubSeq(t, 1, n), SubSeq(t, n + 2, Len(t)))
NumTokValue(t) == NumTokValueOf(t, DigitRun(t, 1))
\* whether position i of s holds the letter c, in either case
LetterAt(s, i, c) == i >= 1 /\ i <= Len(s) /\ LowerCh(s[i]) = c
CharAt(s, i, cs) == i >= 1 /\ i <= Len(s) /\ s[i] \in cs

\* RA_RE matched at position p: Some([g1, g2, g3]) or None; g3 is None when the
\* seconds group took no part in the match.
\*   RA\s*([0-9]{1,2})h\s*([0-9]{1,2}(?:\.[0-9]+)?)m
\*   (?:\s*([0-9]{1,2}(?:\.[0-9]+)?)s)?, ignoring case
\* the seconds group, tried at i3 and ending before e3
RA_RE_sec(s, g1, g2, i3, e3) ==
    Some([g1 |-> g1, g2 |-> g2,
          g3 |-> IF e3 # 0 /\ LetterAt(s, e3, "s") THEN Some(SubSeq(s, i3, e3 - 1)) ELSE None])
\* the minutes, tried at i2 and ending before e2
RA_RE_min(s, g1, i2, e2) ==
    IF e2 # 0 /\ LetterAt(s, e2, "m")
    THEN RA_RE_sec(s, g1, SubSeq(s, i2, e2 - 1),
                   SkipSpace(s, e2 + 1), NumTokEnd(s, SkipSpace(s, e2 + 1)))
    ELSE None
\* the hours, tried at i1 and ending before iH
RA_RE_hour(s, i1, iH) ==
    IF iH # 0 /\ LetterAt(s, iH, "h")
    THEN RA_RE_min(s, SubSeq(s, i1, iH - 1),
                   SkipSpace(s, iH + 1), NumTokEnd(s, SkipSpace(s, iH + 1)))
    ELSE None
RA_RE_at(s, p) ==
    IF LetterAt(s, p, "r") /\ LetterAt(s, p + 1, "a")
    THEN RA_RE_hour(s, SkipSpace(s, p + 2), IntTokEnd(s, SkipSpace(s, p + 2)))
    ELSE None
RA_RE_search(s) ==
    LET ps == {p \in 1..Len(s) : RA_RE_at(s, p) # None}
    IN  IF ps = {} THEN None ELSE RA_RE_at(s, MinOf(ps))

\* DEC_RE matched at position p: Some([g1, g2, g3, g4]) or None.
\*   (?:Dec|LD\.?)\s*([+\-U+2212U+2013]?)\s*([0-9]{1,2})[U+00B0U+00BA]\s*
\*   ([0-9]{1,2})['U+2019]?(?:\s*([0-9]{1,2}(?:\.[0-9]+)?)\"?)?, ignoring case
SignChars == {"+", "-", "U+2212", "U+2013"}
DegreeChars == {"U+00B0", "U+00BA"}
QuoteChars == {"'", "U+2019"}
\* the seconds group, tried at i3 and ending before e3
DEC_RE_sec(s, g1, g2, g3, i3, e3) ==
    Some([g1 |-> g1, g2 |-> g2, g3 |-> g3,
          g4 |-> IF e3 # 0 THEN Some(SubSeq(s, i3, e3 - 1)) ELSE None])
\* after the minutes and their optional quote, at a2
DEC_RE_rest(s, g1, g2, g3, a2) ==
    DEC_RE_sec(s, g1, g2, g3, SkipSpace(s, a2), NumTokEnd(s, SkipSpace(s, a2)))
\* the minutes, tried at i2 and ending before e2
DEC_RE_min(s, g1, g2, i2, e2) ==
    IF e2 # 0
    THEN DEC_RE_rest(s, g1, g2, SubSeq(s, i2, e2 - 1),
                     IF CharAt(s, e2, QuoteChars) THEN e2 + 1 ELSE e2)
    ELSE None
\* the degrees, tried at i1 and ending before iD
DEC_RE_deg(s, g1, i1, iD) ==
    IF iD # 0 /\ CharAt(s, iD, DegreeChars)
    THEN DEC_RE_min(s, g1, SubSeq(s, i1, iD - 1),
                    SkipSpace(s, iD + 1), IntTokEnd(s, SkipSpace(s, iD + 1)))
    ELSE None
\* the sign and what follows it, i1 being the position after the sign
DEC_RE_signed(s, g1, i1) == DEC_RE_deg(s, g1, i1, IntTokEnd(s, i1))
\* after the label, at the first position i0 that is not white space
DEC_RE_sign(s, i0) ==
    IF CharAt(s, i0, SignChars)
    THEN DEC_RE_signed(s, <<s[i0]>>, SkipSpace(s, i0 + 1))
    ELSE DEC_RE_signed(s, EmptyStr, i0)
DEC_RE_at(s, p) ==
    IF LetterAt(s, p, "d") /\ LetterAt(s, p + 1, "e") /\ LetterAt(s, p + 2, "c")
    THEN DEC_RE_sign(s, SkipSpace(s, p + 3))
    ELSE IF LetterAt(s, p, "l") /\ LetterAt(s, p + 1, "d")
    THEN DEC_RE_sign(s, SkipSpace(s, IF CharAt(s, p + 2, {"."}) THEN p + 3 ELSE p + 2))
    ELSE None
DEC_RE_search(s) ==
    LET ps == {p \in 1..Len(s) : DEC_RE_at(s, p) # None}
    IN  IF ps = {} THEN None ELSE DEC_RE_at(s, MinOf(ps))

\* s.split(",")
RECURSIVE SplitComma(_, _)
SplitComma(s, cur) ==
    IF s = <<>> THEN <<cur>>
    ELSE IF s[1] = "," THEN <<cur>> \o SplitComma(Tail(s), <<>>)
    ELSE SplitComma(Tail(s), Append(cur, s[1]))

\* The id of a Messier row: "M<n>" without leading zeros, or "M?".
messier_id(raw_name) ==
    LET m == MESSIER_ID_RE_search(IF raw_name = None THEN EmptyStr ELSE Val(raw_name))
    IN  IF m # None THEN <<"M">> \o NatStr(DigitsVal(Val(m))) ELSE Chars("M?")

\* The seconds of ra, in a version where a seconds group takes the place of
\* the fraction of the minutes.
ra_seconds_group_first(mm, g3) ==
    IF g3 = None THEN (mm - (mm \div Scale) * Scale) * 60 ELSE NumTokValue(Val(g3))
\* The seconds of ra, in hundredths: the seconds group (else 0) plus the
\* fraction of the minutes times 60.
ra_seconds(mm, g3) ==
    (IF g3 = None THEN 0 ELSE NumTokValue(Val(g3))) + (mm - (mm \div Scale) * Scale) * 60

\* The ra of a Messier row from its coordinates text c.
messier_ra(c) ==
    LET m == RA_RE_search(c)
    IN  IF m = None THEN None
        ELSE LET hh == DigitsVal(Val(m).g1)
                 mm == NumTokValue(Val(m).g2)
             IN  Some(hms_to_str(hh, mm \div Scale, ra_seconds(mm, Val(m).g3)))
\* The dec of a Messier row from its coordinates text c.
messier_dec(c) ==
    LET m == DEC_RE_search(c)
    IN  IF m = None THEN None
        ELSE LET sgn == IF StartsWith(Val(m).g1, <<"-">>) THEN 0 - 1 ELSE 1
                 ds == IF Val(m).g4 = None THEN 0 ELSE NumTokValue(Val(Val(m).g4))
             IN  Some(dms_to_str(sgn, DigitsVal(Val(m).g2), DigitsVal(Val(m).g3), ds))

\* The name_en of a Messier row, in a version that keeps an empty second part
\* of the name.
messier_name_en_unchecked(name_en_field, raw_name, mid) ==
    IF Truthy(name_en_field) THEN Val(name_en_field)
    ELSE IF raw_name = None THEN mid
    ELSE LET sp == SplitComma(Val(raw_name), <<>>)
             parts == [i \in 1..Len(sp) |-> Strip(sp[i])]
         IN  IF StartsWith(Upper(parts[1]), <<"M">>) /\ Len(parts) > 1
             THEN RStripDots(parts[2])
             ELSE mid
\* The name_en of a Messier row, in a version that takes the second part of
\* the name after a capital M only.
messier_name_en_capital_only(name_en_field, raw_name, mid) ==
    IF Truthy(name_en_field) THEN Val(name_en_field)
    ELSE LET parts == IF raw_name = None THEN <<>>
                      ELSE LET sp == SplitComma(Val(raw_name), <<>>)
                           IN  [i \in 1..Len(sp) |-> Strip(sp[i])]
             second == IF /\ raw_name # None
                          /\ StartsWith(parts[1], <<"M">>)
                          /\ Len(parts) > 1
                       THEN RStripDots(parts[2])
                       ELSE EmptyStr
         IN  IF second # EmptyStr THEN second ELSE mid
\* The name_en of a Messier row.
messier_name_en(name_en_field, raw_name, mid) ==
    IF Truthy(name_en_field) THEN Val(name_en_field)
    ELSE LET parts == IF raw_name = None THEN <<>>
                      ELSE LET sp == SplitComma(Val(raw_name), <<>>)
                           IN  [i \in 1..Len(sp) |-> Strip(sp[i])]
             second == IF /\ raw_name # None
                          /\ StartsWith(Upper(parts[1]), <<"M">>)
                          /\ Len(parts) > 1
                       THEN RStripDots(parts[2])
                       ELSE EmptyStr
         IN  IF second # EmptyStr THEN second ELSE mid

\* parse_messier_row(row)
parse_messier_row(row) ==
    LET raw_name == norm_str(Get(row, "name"))
        name_en_field == norm_str(Get(row, "name_en"))
        name_kr_field == norm_str(Get(row, "name_kr"))
        coords == norm_str(Get(row, "coordinates"))
        mag == float_or_none(Get(row, "magnitude"))
        mid == messier_id(raw_name)
        name_en == messier_name_en(name_en_field, raw_name, mid)
        name_kr == IF Truthy(name_kr_field) THEN Val(name_kr_field) ELSE ko_name(name_en)
        c == IF coords = None THEN EmptyStr
             ELSE LET c1 == ReplaceStr(ReplaceStr(Val(coords), Chars("LD."), Chars("Dec")),
                                       Chars("ld."), Chars("Dec"))
                  IN  ReplaceCh(ReplaceCh(ReplaceCh(c1, "U+2013", <<"-">>),
                                          "U+2212", <<"-">>), "U+00BA", <<"U+00B0">>)
    IN  [id |-> Some(mid),
         catalog |-> Some(Chars("Messier")),
         name_en |-> Some(name_en),
         name_kr |-> Some(name_kr),
         ra |-> IF coords = None THEN None ELSE messier_ra(c),
         dec |-> IF coords = None THEN None ELSE messier_dec(c),
         magnitude |-> mag,
         type |-> None,
         constellation |-> None]

\* A row that is no JSON object (a string, a number, null, a list) is written
\* [not_an_object |-> its text]. On such a row row.get raises AttributeError.
IsObject(row) == "not_an_object" \notin DOMAIN row
\* Whether parse_messier_row(row) raises: it does on a row without get, and
\* on a row for which the transliteration raises.
parse_messier_row_raises(row) ==
    \/ ~IsObject(row)
    \/ /\ IsObject(row)
       /\ ~Truthy(norm_str(Get(row, "name_kr")))
       /\ ko_name_raises(Val(parse_messier_row(row).name_en))
\* name_en in the except branch of normalize_messier_simple
except_branch_name_en(row) ==
    LET raw_name == norm_str(Get(row, "name"))
        name_en_field == norm_str(Get(row, "name_en"))
    IN  IF Truthy(name_en_field) THEN Val(name_en_field)
        ELSE IF Truthy(raw_name) THEN Val(raw_name)
        ELSE messier_id(raw_name)
\* Whether the except branch of normalize_messier_simple raises on the row:
\* it starts with row.get("name"), and it calls the transliteration again.
except_branch_raises(row) ==
    \/ ~IsObject(row)
    \/ /\ IsObject(row)
       /\ ~Truthy(norm_str(Get(row, "name_kr")))
       /\ ko_name_raises(except_branch_name_en(row))
\* Whether normalize_messier_simple(list_data) raises: a row raises in
\* parse_messier_row and then again in the except branch.
normalize_messier_simple_raises(list_data) ==
    \E i \in 1..Len(list_data) :
        parse_messier_row_raises(list_data[i]) /\ except_branch_raises(list_data[i])
\* normalize_messier_simple(list_data) when it returns: one record per row, in
\* order. The except branch gives no record: the rows that reach it make it
\* raise.
normalize_messier_simple(list_data) ==
    [i \in 1..Len(list_data) |-> parse_messier_row(list_data[i])]

(***************************************************************************)
(* Bright-star rows                                                        *)
(* A coordinate component of a row is a JSON number, [num |-> hundredths], *)
(* or a JSON string, [str |-> text]: int() and float() treat them apart.   *)
(***************************************************************************)
IsNum(v) == DOMAIN v = {"num"}
\* int(t) of a text: Some(value), None when int raises.
PyInt(t) ==
    LET u == Strip(t)
        signed == u # <<>> /\ u[1] \in {"-", "+"}
        b == IF signed THEN Tail(u) ELSE u
    IN  IF b # <<>> /\ DigitRun(b, 1) = Len(b)
        THEN Some(IF u[1] = "-" THEN 0 - DigitsVal(b) ELSE DigitsVal(b))
        ELSE None
\* int(x) of a JSON value (None for a raise): a number is truncated toward zero.
int_of(x) ==
    IF x = None THEN None
    ELSE IF IsNum(Val(x))
         THEN LET n == Val(x).num
              IN  Some(IF n < 0 THEN 0 - ((0 - n) \div Scale) ELSE n \div Scale)
    ELSE PyInt(Val(x).str)
\* float(x) of a JSON value (None for a raise)
float_of(x) ==
    IF x = None THEN None
    ELSE IF IsNum(Val(x)) THEN Some(Val(x).num)
    ELSE PyFloat(Val(x).str)

\* bsc5p_build_hms(d)
bsc5p_build_hms(d) ==
    LET h == int_of(Get(d, "hoursRaJ2000"))
        m == int_of(Get(d, "minutesRaJ2000"))
        s == float_of(Get(d, "secondsRaJ2000"))
    IN  IF h = None \/ m = None \/ s = None THEN None
        ELSE Some(hms_to_str(Val(h), Val(m), Val(s)))
\* bsc5p_build_dms(d) if both coordinates were built inside one try block: a
\* failure of ra leaves dec without a value too.
bsc5p_build_dms_after_hms(d) ==
    IF bsc5p_build_hms(d) = None THEN None
    ELSE LET sg == Get(d, "signDecJ2000")
             signText == IF sg = None \/ IsNum(Val(sg)) \/ Val(sg).str = EmptyStr
                         THEN <<"+">> ELSE Val(sg).str
             deg == int_of(Get(d, "degreesDecJ2000"))
             minu == int_of(Get(d, "minutesDecJ2000"))
             sec == float_of(Get(d, "secondsDecJ2000"))
         IN  IF (sg # None /\ IsNum(Val(sg)) /\ Val(sg).num # 0)
                \/ deg = None \/ minu = None \/ sec = None THEN None
             ELSE Some(dms_to_str(IF Strip(signText) # <<"-">> THEN 1 ELSE 0 - 1,
                                  Val(deg), Val(minu), Val(sec)))
\* bsc5p_build_dms(d): the sign is a JSON string or missing; (x or "+").strip()
\* raises on a number other than 0.
bsc5p_build_dms(d) ==
    LET sg == Get(d, "signDecJ2000")
        signRaises == sg # None /\ IsNum(Val(sg)) /\ Val(sg).num # 0
        signText == IF sg = None \/ IsNum(Val(sg)) \/ Val(sg).str = EmptyStr
                    THEN <<"+">> ELSE Val(sg).str
        sign == IF Strip(signText) # <<"-">> THEN 1 ELSE 0 - 1
        deg == int_of(Get(d, "degreesDecJ2000"))
        minu == int_of(Get(d, "minutesDecJ2000"))
        sec == float_of(Get(d, "secondsDecJ2000"))
    IN  IF signRaises \/ deg = None \/ minu = None \/ sec = None THEN None
        ELSE Some(dms_to_str(sign, Val(deg), Val(minu), Val(sec)))

InSeq(v, seq) == \E i \in 1..Len(seq) : seq[i] = v

\* extract_common_names(names_alt): the trimmed remainders of the entries that
\* start with "NAME " (any case) after trimming, without blanks and repeats.
RECURSIVE extract_common_names_from(_, _)
extract_common_names_from(names_alt, acc) ==
    IF names_alt = <<>> THEN acc
    ELSE LET t == Strip(Head(names_alt))
             name == Strip(Drop(t, 5))
         IN  extract_common_names_from(
                 Tail(names_alt),
                 IF StartsWith(Upper(t), Chars("NAME ")) /\ name # EmptyStr /\ ~InSeq(name, acc)
                 THEN Append(acc, name) ELSE acc)
extract_common_names(names_alt) == extract_common_names_from(names_alt, <<>>)

Contains(s, sub) == \E i \in 1..(Len(s) - Len(sub) + 1) : SubSeq(s, i, i + Len(sub) - 1) = sub
GenericWords ==
    << Chars(" star"), Chars(" nebula"), Chars(" cluster"), Chars(" galaxy"),
       Chars(" variable"), Chars(" a "), Chars(" b ") >>
\* len(n.split())
WordCount(n) ==
    Cardinality({i \in 1..Len(n) : ~IsSpace(n[i]) /\ (i = 1 \/ IsSpace(n[i - 1]))})
\* score(n) of choose_primary_en: (generic, words, len(n)), generic as 0 or 1.
score(n) ==
    << IF \E i \in 1..Len(GenericWords) : Contains(Lower(n), GenericWords[i]) THEN 1 ELSE 0,
       WordCount(n), Len(n) >>
ScoreLess(a, b) ==
    \/ a[1] < b[1]
    \/ a[1] = b[1] /\ a[2] < b[2]
    \/ a[1] = b[1] /\ a[2] = b[2] /\ a[3] < b[3]

\* cand.sort(key=score): a stable sort, the candidates of equal score keep
\* their order.
RECURSIVE InsertByScore(_, _)
InsertByScore(sorted, n) ==
    IF sorted = <<>> THEN <<n>>
    ELSE IF ScoreLess(score(n), score(Head(sorted))) THEN <<n>> \o sorted
    ELSE <<Head(sorted)>> \o InsertByScore(Tail(sorted), n)
RECURSIVE sort_by_score(_, _)
sort_by_score(cand, acc) ==
    IF cand = <<>> THEN acc
    ELSE sort_by_score(Tail(cand), InsertByScore(acc, Head(cand)))
\* choose_primary_en(common_names, fallbacks), in a version without the
\* loop over the override table.
choose_primary_en_by_score(common_names, fallbacks) ==
    LET cand == SelectSeq(common_names, LAMBDA n : n # EmptyStr)
        fb == SelectSeq(fallbacks, LAMBDA f : Truthy(f))
    IN  IF cand # <<>> THEN sort_by_score(cand, <<>>)[1]
        ELSE IF fb # <<>> THEN Val(fb[1])
        ELSE EmptyStr
\* choose_primary_en(common_names, fallbacks), in a version whose sort puts
\* the later of two candidates of equal score first.
choose_primary_en_unstable(common_names, fallbacks) ==
    LET cand == SelectSeq(common_names, LAMBDA n : n # EmptyStr)
        inMap == {i \in 1..Len(cand) : KO_MAP_has(cand[i])}
        rev == [i \in 1..Len(cand) |-> cand[Len(cand) + 1 - i]]
        fb == SelectSeq(fallbacks, LAMBDA f : Truthy(f))
    IN  IF inMap # {} THEN cand[MinOf(inMap)]
        ELSE IF cand # <<>> THEN sort_by_score(rev, <<>>)[1]
        ELSE IF fb # <<>> THEN Val(fb[1])
        ELSE EmptyStr
\* choose_primary_en(common_names, fallbacks): a str, "" when nothing is usable.
choose_primary_en(common_names, fallbacks) ==
    LET cand == SelectSeq(common_names, LAMBDA n : n # EmptyStr)
        inMap == {i \in 1..Len(cand) : KO_MAP_has(cand[i])}
        \* cand.sort(key=score); cand[0]: the first candidate of minimal score
        best == {i \in 1..Len(cand) :
                    /\ \A j \in 1..Len(cand) : ~ScoreLess(score(cand[j]), score(cand[i]))
                    /\ \A j \in 1..(i - 1) : ScoreLess(score(cand[i]), score(cand[j]))}
        fb == SelectSeq(fallbacks, LAMBDA f : Truthy(f))
    IN  IF inMap # {} THEN cand[MinOf(inMap)]
        ELSE IF cand # <<>> THEN cand[MinOf(best)]
        ELSE IF fb # <<>> THEN Val(fb[1])
        ELSE EmptyStr

\* The caller's list after choose_primary_en(common_names, fallbacks), in a
\* version that sorts the list it is given.
common_names_after_choose_sorted_in_place(common_names) ==
    IF \E i \in 1..Len(common_names) : KO_MAP_has(common_names[i]) THEN common_names
    ELSE sort_by_score(common_names, <<>>)
\* The caller's list after choose_primary_en(common_names, fallbacks): cand
\* is a new list, the sort does not touch common_names.
common_names_after_choose(common_names) == common_names

\* The id of a bright-star row.
bsc5p_id(s) ==
    LET bayer == norm_str(Get(s, "bayerAndOrFlamsteed"))
        hd == norm_str(Get(s, "hdId"))
        sao == norm_str(Get(s, "saoId"))
        sid == first(<< bayer,
                        IF hd # None THEN Some(Chars("HD ") \o Val(hd)) ELSE None,
                        IF sao # None THEN Some(Chars("SAO ") \o Val(sao)) ELSE None,
                        norm_str(Get(s, "dmId")),
                        norm_str(Get(s, "adsId")) >>)
        \* str(s.get('lineNumber', '?'))
        line == IF "lineNumber" \notin DOMAIN s THEN Chars("?")
                ELSE IF s["lineNumber"] = None THEN Chars("None")
                ELSE Val(s["lineNumber"])
    IN  IF Truthy(sid) THEN Val(sid) ELSE Chars("line:") \o line

\* The aliases_en of a bright-star row: the primary name, then the other
\* common names, without repeats.
RECURSIVE Dedup(_, _)
Dedup(seq, acc) ==
    IF seq = <<>> THEN acc
    ELSE Dedup(Tail(seq), IF InSeq(Head(seq), acc) THEN acc ELSE Append(acc, Head(seq)))
\* The aliases_en of a bright-star row, in a version that lists the common
\* names only.
bsc5p_aliases_en_common_only(primary_en, common_list) ==
    Dedup(SelectSeq(common_list, LAMBDA n : n # EmptyStr), <<>>)
bsc5p_aliases_en(primary_en, common_list) ==
    Dedup(<<primary_en>> \o SelectSeq(common_list, LAMBDA n : n # primary_en /\ n # EmptyStr),
          <<>>)

\* Whether the magnitude filter drops a row of that magnitude, in a version
\* whose bound is exclusive.
mag_filtered_exclusive(magnitude, mag_threshold) ==
    mag_threshold # None /\ magnitude # None /\ Val(magnitude) >= Val(mag_threshold)
\* Whether the magnitude filter drops a row of that magnitude.
mag_filtered(magnitude, mag_threshold) ==
    mag_threshold # None /\ magnitude # None /\ Val(magnitude) > Val(mag_threshold)

\* One turn of the loop of normalize_bsc5p_known_schema on row s:
\* [skip |-> "magnitude" | "commonnames" | "no", rec |-> the record appended].
bsc5p_row(s, mag_threshold, commonnames_only) ==
    LET magnitude == float_or_none(Get(s, "visualMagnitude"))
        bayer == norm_str(Get(s, "bayerAndOrFlamsteed"))
        sid == bsc5p_id(s)
        names_alt == IF Get(s, "namesAlt") = None THEN <<>> ELSE Val(Get(s, "namesAlt"))
        common_list == extract_common_names(names_alt)
        chosen == norm_str(Some(choose_primary_en(common_list, <<bayer, Some(sid)>>)))
        primary_en == IF Truthy(chosen) THEN Val(chosen)
                      ELSE IF Truthy(bayer) THEN Val(bayer) ELSE sid
        aliases_en == bsc5p_aliases_en(primary_en, common_names_after_choose(common_list))
    IN  IF mag_filtered(magnitude, mag_threshold)
        THEN [skip |-> "magnitude", rec |-> <<>>]
        ELSE IF commonnames_only /\ common_list = <<>>
        THEN [skip |-> "commonnames", rec |-> <<>>]
        ELSE [skip |-> "no",
              rec |-> [id |-> Some(sid),
                       catalog |-> Some(Chars("BrightStar")),
                       name_en |-> Some(primary_en),
                       name_kr |-> Some(ko_name(primary_en)),
                       aliases_en |-> Some(aliases_en),
                       aliases_kr |-> Some([i \in 1..Len(aliases_en) |-> ko_name(aliases_en[i])]),
                       bayerFlamsteed |-> bayer,
                       ra |-> bsc5p_build_hms(s),
                       dec |-> bsc5p_build_dms(s),
                       magnitude |-> magnitude,
                       spectralType |-> norm_str(Get(s, "spectralType")),
                       constellation |-> None]]

\* Whether normalize_bsc5p_known_schema raises: nothing is caught there, so
\* it does when the transliteration raises on the name or on an alias of a
\* row that is kept.
normalize_bsc5p_known_schema_raises(stars, mag_threshold, commonnames_only) ==
    \E i \in 1..Len(stars) :
        LET r == bsc5p_row(stars[i], mag_threshold, commonnames_only)
        IN  /\ r.skip = "no"
            /\ \/ ko_name_raises(Val(r.rec.name_en))
               \/ \E j \in 1..Len(Val(r.rec.aliases_en)) :
                     ko_name_raises(Val(r.rec.aliases_en)[j])
\* normalize_bsc5p_known_schema(stars, mag_threshold, commonnames_only)
RECURSIVE normalize_bsc5p_known_schema(_, _, _)
normalize_bsc5p_known_schema(stars, mag_threshold, commonnames_only) ==
    IF stars = <<>> THEN <<>>
    ELSE LET r == bsc5p_row(Head(stars), mag_threshold, commonnames_only)
         IN  (IF r.skip = "no" THEN <<r.rec>> ELSE <<>>)
             \o normalize_bsc5p_known_schema(Tail(stars), mag_threshold, commonnames_only)

(***************************************************************************)
(* The solar-system table                                                  *)
(***************************************************************************)
solar_type(en) ==
    IF en \notin {Chars("Ganymede"), Chars("Titan"), Chars("Pluto")} THEN Chars("Planet")
    ELSE IF en \in {Chars("Ganymede"), Chars("Titan")} THEN Chars("Moon")
    ELSE Chars("DwarfPlanet")
\* build_solar_bodies()
build_solar_bodies ==
    [i \in 1..Len(SOLAR_SYSTEM) |->
        [id |-> Some(Chars("planet:") \o Lower(SOLAR_SYSTEM[i][1])),
         catalog |-> Some(Chars("SolarSystem")),
         name_en |-> Some(SOLAR_SYSTEM[i][1]),
         name_kr |-> Some(SOLAR_SYSTEM[i][2]),
         ra |-> None,
         dec |-> None,
         type |-> Some(solar_type(SOLAR_SYSTEM[i][1])),
         constellation |-> None]]

(***************************************************************************)
(* main: the merge by id and the sort                                      *)
(***************************************************************************)
\* The keys whose values are lists and numbers: Python's == never finds them
\* equal to "".
ListKeys == {"aliases_en", "aliases_kr"}
NumKeys == {"magnitude"}
\* v in (None, "") for the value v of key k
IsBlank(k, v) == v = None \/ (k \notin (ListKeys \cup NumKeys) /\ Val(v) = EmptyStr)

\* fill_missing(base, patch), by a version where the later record wins
fill_missing_overwriting(base, patch) ==
    [k \in DOMAIN base \cup DOMAIN patch |->
        IF k \in DOMAIN patch /\ ~IsBlank(k, patch[k]) THEN patch[k] ELSE base[k]]
\* fill_missing(base, patch)
fill_missing(base, patch) ==
    LET fills(k) == k \in DOMAIN patch /\ IsBlank(k, Get(base, k)) /\ ~IsBlank(k, patch[k])
    IN  [k \in DOMAIN base \cup {k \in DOMAIN patch : fills(k)} |->
            IF fills(k) THEN patch[k] ELSE base[k]]

\* i in by_id, and by_id[i]
Has(d, i) == \E n \in 1..Len(d) : d[n].k = i
Lookup(d, i) == d[CHOOSE n \in 1..Len(d) : d[n].k = i].v
\* by_id[i] = v, in a version that adds an entry each time
StoreAppending(d, i, v) == Append(d, [k |-> i, v |-> v])
\* by_id[i] = v
Store(d, i, v) ==
    IF Has(d, i) THEN [n \in 1..Len(d) |-> IF d[n].k = i THEN [k |-> i, v |-> v] ELSE d[n]]
    ELSE Append(d, [k |-> i, v |-> v])
\* One turn of the merge loop, in a version that takes the id "M?" for no id
\* and skips its item.
merge_item_skipping_unnumbered(d, item) ==
    LET i == Get(item, "id")
    IN  IF ~Truthy(i) \/ i = Some(Chars("M?")) THEN d
        ELSE Store(d, Val(i), IF Has(d, Val(i)) THEN fill_missing(Lookup(d, Val(i)), item)
                                  ELSE item)
\* One turn of the merge loop on item.
merge_item(d, item) ==
    LET i == Get(item, "id")
    IN  IF ~Truthy(i) THEN d
        ELSE Store(d, Val(i), IF Has(d, Val(i)) THEN fill_missing(Lookup(d, Val(i)), item)
                                  ELSE item)

\* sort_key(o), in a version that takes a null magnitude for 0
sort_key_null_as_zero(o) ==
    << IF Truthy(Get(o, "catalog")) THEN Val(Get(o, "catalog")) ELSE EmptyStr,
       IF Get(o, "magnitude") = None THEN 0 ELSE Val(Get(o, "magnitude")),
       IF Truthy(Get(o, "name_en")) THEN Val(Get(o, "name_en")) ELSE EmptyStr >>
\* sort_key(o): (catalog or "", magnitude or 99.0, name_en or "")
sort_key(o) ==
    << IF Truthy(Get(o, "catalog")) THEN Val(Get(o, "catalog")) ELSE EmptyStr,
       IF Get(o, "magnitude") = None THEN 99 * Scale ELSE Val(Get(o, "magnitude")),
       IF Truthy(Get(o, "name_en")) THEN Val(Get(o, "name_en")) ELSE EmptyStr >>
\* a < b on sort keys
KeyLess(a, b) ==
    \/ StrLess(a[1], b[1])
    \/ a[1] = b[1] /\ a[2] < b[2]
    \/ a[1] = b[1] /\ a[2] = b[2] /\ StrLess(a[3], b[3])
\* list.sort(key=sort_key): stable, so each element goes after the elements
\* that are not greater than it.
RECURSIVE InsertSorted(_, _)
InsertSorted(sorted, o) ==
    IF sorted = <<>> THEN <<o>>
    ELSE IF KeyLess(sort_key(o), sort_key(Head(sorted))) THEN <<o>> \o sorted
    ELSE <<Head(sorted)>> \o InsertSorted(Tail(sorted), o)
RECURSIVE SortedFrom(_, _)
SortedFrom(seq, acc) ==
    IF seq = <<>> THEN acc ELSE SortedFrom(Tail(seq), InsertSorted(acc, Head(seq)))
sort_by_key(seq) == SortedFrom(seq, <<>>)

\* mag_thr of main, from the text of --bsc5p-mag
mag_thr(bsc5p_mag) ==
    IF Lower(bsc5p_mag) = Chars("none") THEN None ELSE float_or_none(Some(bsc5p_mag))

\* messier + bright + solar
\* The items of the merge loop, in a version that leaves the solar-system
\* table out: for item in messier + bright
items_inputs_only == messier \o bright
\* for item in messier + bright + solar
items == messier \o bright \o solar

\* with Path(args.messier).open(...) as f: messier_raw = json.load(f)
LoadMessier ==
    /\ pc = "load_messier"
    /\ pc' = IF args.messier_file \in {"missing", "invalid"} THEN "aborted" ELSE "load_bsc5p"
    /\ UNCHANGED <<args, hangulize, messier, bright, solar, idx, by_id, out, file, logbook>>

\* The reading of the bright-star file, in a version that takes a file it
\* cannot read for an empty list.
LoadBsc5p_lenient ==
    /\ pc = "load_bsc5p"
    /\ pc' = "iter_inputs"
    /\ UNCHANGED <<args, hangulize, messier, bright, solar, idx, by_id, out, file, logbook>>

\* with Path(args.bsc5p).open(...) as f: bsc5p_raw = json.load(f)
LoadBsc5p ==
    /\ pc = "load_bsc5p"
    /\ pc' = IF args.bsc5p_file \in {"missing", "invalid"} THEN "aborted" ELSE "iter_inputs"
    /\ UNCHANGED <<args, hangulize, messier, bright, solar, idx, by_id, out, file, logbook>>

\* messier_iter and bsc5p_iter: the list itself, or the "data" of an object;
\* .get raises on any other JSON value.
IterInputs ==
    /\ pc = "iter_inputs"
    /\ pc' = IF "scalar" \in {args.messier_file, args.bsc5p_file} THEN "aborted"
             ELSE "normalize_messier"
    /\ UNCHANGED <<args, hangulize, messier, bright, solar, idx, by_id, out, file, logbook>>

NormalizeMessier ==
    /\ pc = "normalize_messier"
    /\ IF normalize_messier_simple_raises(args.messier)
       THEN messier' = messier /\ pc' = "aborted"
       ELSE messier' = normalize_messier_simple(args.messier) /\ pc' = "normalize_bsc5p"
    /\ UNCHANGED <<args, hangulize, bright, solar, idx, by_id, out, file, logbook>>

NormalizeBsc5p ==
    /\ pc = "normalize_bsc5p"
    /\ IF normalize_bsc5p_known_schema_raises(args.bsc5p, mag_thr(args.bsc5p_mag),
                                              args.commonnames_only)
       THEN bright' = bright /\ pc' = "aborted"
       ELSE /\ bright' = normalize_bsc5p_known_schema(args.bsc5p, mag_thr(args.bsc5p_mag),
                                                      args.commonnames_only)
            /\ pc' = "build_solar"
    /\ UNCHANGED <<args, hangulize, messier, solar, idx, by_id, out, file, logbook>>

BuildSolar ==
    /\ pc = "build_solar"
    /\ solar' = build_solar_bodies
    /\ pc' = "merge"
    /\ UNCHANGED <<args, hangulize, messier, bright, idx, by_id, out, file, logbook>>

\* One turn of: for item in messier + bright + solar
MergeItem ==
    /\ pc = "merge"
    /\ idx < Len(items)
    /\ by_id' = merge_item(by_id, items[idx + 1])
    /\ idx' = idx + 1
    /\ UNCHANGED <<pc, args, hangulize, messier, bright, solar, out, file, logbook>>

\* out = list(by_id.values()); out.sort(key=sort_key)
Sort ==
    /\ pc = "merge"
    /\ idx = Len(items)
    /\ out' = sort_by_key([n \in 1..Len(by_id) |-> by_id[n].v])
    /\ pc' = "write"
    /\ UNCHANGED <<args, hangulize, messier, bright, solar, idx, by_id, file, logbook>>

\* with open(args.out, "w") as f: json.dump(out, f), when nothing fails in
\* it, seen from after the close. OpenOut, DumpRecord, DumpFails and CloseOut
\* below are its steps.
Write ==
    /\ pc = "write"
    /\ file' = Some(out)
    /\ pc' = "done"
    /\ UNCHANGED <<args, hangulize, messier, bright, solar, idx, by_id, out, logbook>>

Next ==
    \/ LoadMessier
    \/ LoadBsc5p
    \/ IterInputs
    \/ NormalizeMessier
    \/ NormalizeBsc5p
    \/ BuildSolar
    \/ MergeItem
    \/ Sort
    \/ Write

(***************************************************************************)
(* The inputs of the runs explored                                         *)
(***************************************************************************)
\* The most rows the two input files hold together.
MaxRows == 2

Deg == <<"U+00B0">>
\* Messier rows: the whole row; a row that shares its id and lacks dec and
\* magnitude; a row of that id too whose name is a hyphen and whose magnitude
\* is over 99; a row without a name field; a row with an id for a name; a
\* row that is a JSON string.
MessierRows ==
    { [name |-> Some(Chars("M1, Crab Nebula.")),
       coordinates |-> Some(Chars("RA 05h 34.5m, Dec +22") \o Deg \o Chars(" 01'")),
       magnitude |-> Some(Chars("8.4"))],
      [name |-> Some(Chars("M1, .")),
       coordinates |-> Some(Chars("RA 05h 34m 30s"))],
      [name |-> Some(Chars("M1, -.")),
       magnitude |-> Some(Chars("100"))],
      [name_en |-> Some(Chars("Orion Nebula")),
       coordinates |-> Some(Chars("LD. -05") \o Deg \o Chars(" 23' 12.5\"")),
       magnitude |-> Some(Chars("none"))],
      [name |-> Some(Chars("m 042"))],
      [not_an_object |-> Some(Chars("M1"))] }
\* Bright-star rows: a whole row; a row with the id of a Messier object, a
\* hyphen for a name and the magnitude of the default threshold; a faint row
\* with the id of a planet and no names; a second row for the first star.
BrightRows ==
    { [bayerAndOrFlamsteed |-> Some(Chars("9 Alp CMa")),
       hdId |-> Some(Chars("48915")),
       visualMagnitude |-> Some(Chars("-1.46")),
       namesAlt |-> Some(<<Chars("NAME Dog Star"), Chars("* alf CMa"), Chars("NAME Sirius")>>),
       spectralType |-> Some(Chars("A1Vm")),
       hoursRaJ2000 |-> Some([num |-> 600]),
       minutesRaJ2000 |-> Some([num |-> 4500]),
       secondsRaJ2000 |-> Some([num |-> 892]),
       signDecJ2000 |-> Some([str |-> Chars("-")]),
       degreesDecJ2000 |-> Some([num |-> 1600]),
       minutesDecJ2000 |-> Some([num |-> 4200]),
       secondsDecJ2000 |-> Some([num |-> 5801])],
      [bayerAndOrFlamsteed |-> Some(Chars("M1")),
       visualMagnitude |-> Some(Chars("6.5")),
       namesAlt |-> Some(<<Chars("NAME -")>>),
       degreesDecJ2000 |-> Some([str |-> Chars("22")]),
       minutesDecJ2000 |-> Some([str |-> Chars("0")]),
       secondsDecJ2000 |-> Some([str |-> Chars("52.1")])],
      [dmId |-> Some(Chars("planet:mars")),
       visualMagnitude |-> Some(Chars("6.51")),
       lineNumber |-> Some(Chars("3"))],
      [bayerAndOrFlamsteed |-> Some(Chars(" 9 Alp CMa")),
       visualMagnitude |-> Some(Chars("n/a")),
       namesAlt |-> Some(<<Chars("name Canopus")>>),
       spectralType |-> Some(Chars("A1"))] }
\* The texts given for --bsc5p-mag: the default and the disabling word.
MagArgs == {Chars("6.5"), Chars("None")}
\* What an input file is: "ok" a JSON list of rows, "missing" absent or
\* unreadable, "invalid" no JSON text, "scalar" a JSON value that is neither a
\* list nor an object. The rows of a file that is not "ok" are written <<>>.
BadFiles == {"missing", "invalid", "scalar"}
\* The three ways the transliteration library behaves.
HangulizeModes == {"missing", "raises", "ok"}

\* The sequences over S of length at most n
RECURSIVE SeqsUpTo(_, _)
SeqsUpTo(S, n) ==
    IF n = 0 THEN {<<>>}
    ELSE SeqsUpTo(S, n - 1) \cup {Append(q, e) : q \in {r \in SeqsUpTo(S, n - 1) : Len(r) = n - 1}, e \in S}

Start ==
    /\ pc = "normalize_messier"
    /\ messier = <<>>
    /\ bright = <<>>
    /\ solar = <<>>
    /\ idx = 0
    /\ by_id = <<>>
    /\ out = <<>>
    /\ file = None
    /\ LogbookIdle

Init ==
    /\ \E ms \in SeqsUpTo(MessierRows, MaxRows), bs \in SeqsUpTo(BrightRows, MaxRows),
          mf \in {"ok"} \cup BadFiles, bf \in {"ok"} \cup BadFiles,
          mg \in MagArgs, cn \in BOOLEAN :
          /\ Len(ms) + Len(bs) <= MaxRows
          /\ mf # "ok" => ms = <<>>
          /\ bf # "ok" => bs = <<>>
          /\ args = [messier_file |-> mf, messier |-> ms, bsc5p_file |-> bf, bsc5p |-> bs,
                     bsc5p_mag |-> mg, commonnames_only |-> cn]
    /\ hangulize \in HangulizeModes
    /\ pc = "load_messier"
    /\ messier = <<>>
    /\ bright = <<>>
    /\ solar = <<>>
    /\ idx = 0
    /\ by_id = <<>>
    /\ out = <<>>
    /\ file = None
    /\ LogbookIdle

Spec == Init /\ [][Next]_vars

(***************************************************************************)
(* Runs on one bright-star row, the fields of the row drawn one by one     *)
(***************************************************************************)
NoField == <<>>
BayerChoices ==
    { NoField,
      "bayerAndOrFlamsteed" :> None,
      "bayerAndOrFlamsteed" :> Some(Chars("9 Alp CMa")) }
HdChoices == { NoField, "hdId" :> Some(Chars(" ")), "hdId" :> Some(Chars("48915")) }
SaoChoices == { NoField, "saoId" :> Some(Chars("151881")) }
DmChoices == { NoField, "dmId" :> Some(Chars("BD-16 1591")) }
AdsChoices == { NoField, "adsId" :> Some(Chars("ADS 5423")) }
LineChoices == { NoField, "lineNumber" :> None, "lineNumber" :> Some(Chars("42")) }
MagChoices ==
    { NoField,
      "visualMagnitude" :> Some(Chars("6.5")),
      "visualMagnitude" :> Some(Chars("6.51")),
      "visualMagnitude" :> Some(Chars("n/a")) }
NamesChoices ==
    { NoField,
      "namesAlt" :> Some(<<Chars("* alf CMa"), Chars("NAME "), Chars("NAMED x")>>),
      "namesAlt" :> Some(<<Chars("  name Sirius")>>),
      "namesAlt" :> Some(<<Chars("  name Sirius"), Chars("NAME Dog Star")>>) }
BrightRowsWide ==
    { b @@ h @@ s @@ d @@ a @@ l @@ m @@ n :
        b \in BayerChoices, h \in HdChoices, s \in SaoChoices, d \in DmChoices,
        a \in AdsChoices, l \in LineChoices, m \in MagChoices, n \in NamesChoices }

InitBright ==
    /\ \E row \in BrightRowsWide, mg \in MagArgs, cn \in BOOLEAN :
          args = [messier_file |-> "ok", messier |-> <<>>,
                  bsc5p_file |-> "ok", bsc5p |-> <<row>>, bsc5p_mag |-> mg,
                  commonnames_only |-> cn]
    /\ hangulize \in {"missing", "ok"}
    /\ pc = "normalize_bsc5p"
    /\ messier = <<>>
    /\ bright = <<>>
    /\ solar = <<>>
    /\ idx = 0
    /\ by_id = <<>>
    /\ out = <<>>
    /\ file = None
    /\ LogbookIdle

NextBright == NormalizeBsc5p

SpecBright == InitBright /\ [][NextBright]_vars

(***************************************************************************)
(* Runs on one bright-star row, its namesAlt drawn entry by entry          *)
(***************************************************************************)
MaxNames == 3
\* Entries of namesAlt: names of the override table, short names of equal
\* score, a name with a generic word, a name of two words, a name that
\* norm_str rewrites, an entry that is no name, entries with white space
\* around them, in lower case, and without a remainder, and a name that has
\* the tokens of another one.
NameEntries ==
    { Chars("NAME Sirius"), Chars("NAME Vega"), Chars("NAME Ab"), Chars("NAME Zz"),
      Chars("NAME Dog Star"), Chars("NAME Big Ab"), Chars("NAME A") \o <<"U+2019">>,
      Chars("* alf CMa"), Chars(" name Ab "), Chars("NAME "), Chars("NAME Big-Ab") }
InitNames ==
    /\ \E names \in SeqsUpTo(NameEntries, MaxNames),
          b \in {NoField, "bayerAndOrFlamsteed" :> Some(Chars("9 Alp CMa"))} :
          args = [messier_file |-> "ok", messier |-> <<>>,
                  bsc5p_file |-> "ok",
                  bsc5p |-> << b @@ "hdId" :> Some(Chars("48915"))
                                 @@ "namesAlt" :> Some(names) >>,
                  bsc5p_mag |-> Chars("6.5"),
                  commonnames_only |-> FALSE]
    /\ hangulize = "ok"
    /\ pc = "normalize_bsc5p"
    /\ messier = <<>>
    /\ bright = <<>>
    /\ solar = <<>>
    /\ idx = 0
    /\ by_id = <<>>
    /\ out = <<>>
    /\ file = None
    /\ LogbookIdle

NextNames == NormalizeBsc5p

SpecNames == InitNames /\ [][NextNames]_vars

(***************************************************************************)
(* Runs on one Messier row, its coordinates text drawn part by part        *)
(***************************************************************************)
\* The hours of the text, with their value.
RaHours == { [text |-> Chars("RA 05h "), h |-> 5], [text |-> Chars("ra 5H"), h |-> 5] }
\* The minutes: text, whole minutes, hundredths of a minute.
RaMinutes ==
    { [text |-> Chars("34m"), m |-> 34, frac |-> 0],
      [text |-> Chars("34.5m"), m |-> 34, frac |-> 50],
      [text |-> Chars("7.25M"), m |-> 7, frac |-> 25],
      [text |-> Chars("59.99m"), m |-> 59, frac |-> 99] }
\* What follows the minutes: text, whether it is a seconds group, its value in
\* hundredths.
RaSeconds ==
    { [text |-> EmptyStr, given |-> FALSE, s |-> 0],
      [text |-> Chars(" 10s"), given |-> TRUE, s |-> 1000],
      [text |-> Chars("9.5S"), given |-> TRUE, s |-> 950],
      [text |-> Chars(" 0s"), given |-> TRUE, s |-> 0],
      [text |-> Chars(" 10 s"), given |-> FALSE, s |-> 0] }
\* The rest of the text.
DecTexts ==
    { EmptyStr,
      Chars(", Dec +22") \o Deg \o Chars(" 01'"),
      Chars(" LD. ") \o <<"U+2212">> \o Chars("05") \o <<"U+00BA">> \o Chars(" 23") \o <<"U+2019">> \o Chars(" 12.5\"") }
MessierNames ==
    { NoField,
      "name" :> Some(Chars("M1, Crab Nebula.")),
      "name" :> Some(Chars("m 042")),
      "name" :> Some(Chars("Sombrero Galaxy")),
      "name" :> Some(Chars("xM31")),
      "name" :> Some(Chars("M31b")),
      "name" :> Some(Chars("M1234")),
      "name" :> Some(Chars("NGC 1952 M 007, x")),
      "name" :> Some(<<"U+AC00">> \o Chars("m5")),
      "name" :> Some(Chars("Dim99 (M 8)")) }
ra_text(h, m, s, d) == h.text \o m.text \o s.text \o d
\* Rows for the coordinates and the id: the parts of the text and the name.
MessierCoordinateRows ==
    { n @@ ("coordinates" :> Some(ra_text(h, m, s, d))) :
        h \in RaHours, m \in RaMinutes, s \in RaSeconds, d \in DecTexts, n \in MessierNames }
\* Rows for name_en: the name field, with one, two and three parts, with a
\* small m, with periods and blanks, and the name_en field, absent, null,
\* blank and given.
MessierNameFields ==
    { NoField,
      "name" :> Some(Chars("M1, Crab Nebula.")),
      "name" :> Some(Chars("m1, Crab Nebula..")),
      "name" :> Some(Chars(" M 1 ,  Crab . ")),
      "name" :> Some(Chars("M1, Crab Nebula, NGC 1952")),
      "name" :> Some(Chars("M1")),
      "name" :> Some(Chars("M1,")),
      "name" :> Some(Chars("M1, .")),
      "name" :> Some(Chars("Mars, Red")),
      "name" :> Some(Chars("NGC 1952 M 007, x")),
      "name" :> Some(Chars("Sombrero Galaxy")) }
MessierNameEnFields ==
    { NoField,
      "name_en" :> None,
      "name_en" :> Some(Chars(" ")),
      "name_en" :> Some(Chars(" Orion Nebula ")) }
MessierNameRows ==
    { n @@ e @@ ("coordinates" :> Some(Chars("RA 05h 34.5m"))) :
        n \in MessierNameFields, e \in MessierNameEnFields }
\* Rows for dec: the label, the sign with whether it is a minus, the degrees,
\* the minutes and the seconds with their values (the seconds in hundredths).
\* The minutes are followed by an apostrophe, by nothing, by a typographic
\* apostrophe or by a prime; the seconds by a quotation mark, a double prime
\* or nothing.
DecLabels == { Chars("Dec "), Chars("LD. "), Chars("dec") }
DecSigns ==
    { [text |-> EmptyStr, minus |-> FALSE],
      [text |-> Chars("+"), minus |-> FALSE],
      [text |-> Chars("-"), minus |-> TRUE],
      [text |-> <<"U+2212">>, minus |-> TRUE],
      [text |-> <<"U+2013", " ">>, minus |-> TRUE],
      [text |-> <<"U+2014">>, minus |-> TRUE] }
DecDegrees ==
    { [text |-> Chars("22") \o Deg, d |-> 22],
      [text |-> Chars("0") \o <<"U+00BA", " ">>, d |-> 0] }
DecMinutes ==
    { [text |-> Chars("01'"), m |-> 1],
      [text |-> Chars("30"), m |-> 30],
      [text |-> Chars("7") \o <<"U+2019">>, m |-> 7],
      [text |-> Chars("00") \o <<"U+2032">>, m |-> 0] }
DecSeconds ==
    { [text |-> EmptyStr, given |-> FALSE, s |-> 0],
      [text |-> Chars(" 12.5\""), given |-> TRUE, s |-> 1250],
      [text |-> Chars(" 52") \o <<"U+2033">>, given |-> TRUE, s |-> 5200] }
dec_text(l, sg, d, m, s) == l \o sg.text \o d.text \o m.text \o s.text
MessierDecRows ==
    { ("name" :> Some(Chars("M1"))) @@ ("coordinates" :> Some(dec_text(l, sg, d, m, s))) :
        l \in DecLabels, sg \in DecSigns, d \in DecDegrees, m \in DecMinutes, s \in DecSeconds }

InitMessier ==
    /\ \E row \in MessierCoordinateRows \cup MessierNameRows \cup MessierDecRows :
          args = [messier_file |-> "ok",
                  messier |-> <<row>>,
                  bsc5p_file |-> "ok", bsc5p |-> <<>>, bsc5p_mag |-> Chars("6.5"), commonnames_only |-> FALSE]
    /\ hangulize \in HangulizeModes
    /\ Start

NextMessier == NormalizeMessier

SpecMessier == InitMessier /\ [][NextMessier]_vars

(***************************************************************************)
(* Properties of the merged catalogue                                      *)
(***************************************************************************)
\* normalize_messier_simple has returned; normalize_bsc5p_known_schema has.
MessierDone == pc \in {"normalize_bsc5p", "build_solar", "merge", "write", "done"}
BrightDone == pc \in {"build_solar", "merge", "write", "done"}
\* The records of the output file, once written.
written == IF file = None THEN <<>> ELSE Val(file)
\* The field k of record o, None when the record has no such field.
Field(o, k) == Get(o, k)
\* The position in the merge order of the first item with the id i.
FirstWith(i) == CHOOSE n \in 1..Len(items) : Get(items[n], "id") = Some(i) /\
                    \A m \in 1..(n - 1) : Get(items[m], "id") # Some(i)


\* C1: no two records of the output list, and none of the written file, share
\* an id.
C1_UniqueIds ==
    /\ \A i, j \in 1..Len(out) : i # j => Field(out[i], "id") # Field(out[j], "id")
    /\ \A i, j \in 1..Len(written) : i # j => Field(written[i], "id") # Field(written[j], "id")
\* The file is written, from inputs of both catalogues that held the same id
\* more than once.
C1_Witness ==
    /\ file # None
    /\ messier # <<>>
    /\ bright # <<>>
    /\ \E m \in 1..Len(messier), b \in 1..Len(bright) : Field(messier[m], "id") = Field(bright[b], "id")
    /\ Len(Val(file)) < Len(items)
    /\ Len(Val(file)) > Len(solar)

\* v is null or the empty string, for the value v of field k
C2_Unset(k, v) == v = None \/ (k \notin {"magnitude", "aliases_en", "aliases_kr"} /\ v = Some(EmptyStr))
\* C2: a turn of the merge loop changes no stored record but the one with the
\* item's id, and in that one it changes no field that is neither null nor
\* the empty string; a field that is null or the empty string takes the
\* item's value when that value is neither, and stays as it is otherwise.
C2_MergeFillsOnly ==
    [][pc = "merge" /\ idx' = idx + 1 =>
        LET item == items[idx + 1]
        IN  /\ \A n \in 1..Len(by_id) :
                 /\ Len(by_id') >= n
                 /\ by_id'[n].k = by_id[n].k
                 /\ Some(by_id[n].k) # Field(item, "id") => by_id'[n].v = by_id[n].v
                 /\ Some(by_id[n].k) = Field(item, "id") =>
                      \A k \in DOMAIN by_id[n].v \cup DOMAIN item :
                          Field(by_id'[n].v, k) =
                              IF C2_Unset(k, Field(by_id[n].v, k)) /\ ~C2_Unset(k, Field(item, k))
                              THEN Field(item, k)
                              ELSE Field(by_id[n].v, k)]_vars
\* The merge is over; a stored record holds a declination that the first
\* record of its id lacked and a later one gave, a Korean name that the first
\* had empty, and the English name of the first, which the later one would
\* have changed.
C2_Witness ==
    /\ pc = "merge"
    /\ idx = Len(items)
    /\ \E n \in 1..Len(by_id) :
          LET f == items[FirstWith(by_id[n].k)]
          IN  /\ Field(f, "dec") = None
              /\ Field(by_id[n].v, "dec") # None
              /\ Field(f, "name_kr") = Some(EmptyStr)
              /\ Field(by_id[n].v, "name_kr") # Some(EmptyStr)
              /\ Field(by_id[n].v, "name_en") = Field(f, "name_en")
              /\ \E m \in 1..Len(items) :
                    /\ Field(items[m], "id") = Some(by_id[n].k)
                    /\ Field(items[m], "name_en") # Field(f, "name_en")

\* The sort key of a record as the documentation gives it: the catalogue, the
\* magnitude with 99.0 for a null one, the English name.
C3_Key(o) ==
    << IF Field(o, "catalog") = None THEN EmptyStr ELSE Val(Field(o, "catalog")),
       IF Field(o, "magnitude") = None THEN 99 * Scale ELSE Val(Field(o, "magnitude")),
       IF Field(o, "name_en") = None THEN EmptyStr ELSE Val(Field(o, "name_en")) >>
\* a is not after b in the order of the keys
C3_NotAfter(a, b) ==
    \/ StrLess(a[1], b[1])
    \/ a[1] = b[1] /\ a[2] < b[2]
    \/ a[1] = b[1] /\ a[2] = b[2] /\ (a[3] = b[3] \/ StrLess(a[3], b[3]))
\* The records of seq are in non-decreasing order of their keys.
C3_Ordered(seq) ==
    \A i \in 1..(Len(seq) - 1) : C3_NotAfter(C3_Key(seq[i]), C3_Key(seq[i + 1]))
\* In seq, within a catalogue, a record with a null magnitude comes after
\* every record that has a magnitude below limit (every one when limit is
\* None).
C3_NullsAfter(seq, limit) ==
    \A i, j \in 1..Len(seq) :
        /\ Field(seq[i], "catalog") = Field(seq[j], "catalog")
        /\ Field(seq[i], "magnitude") = None
        /\ Field(seq[j], "magnitude") # None
        /\ (limit # None => Val(Field(seq[j], "magnitude")) < Val(limit))
        => j < i

C4_NameEnNonEmpty ==
    /\ \A seq \in {messier, bright, solar, out, written} :
          \A i \in 1..Len(seq) :
              Field(seq[i], "name_en") # None /\ Val(Field(seq[i], "name_en")) # EmptyStr
    /\ MessierDone =>
          \A i \in 1..Len(args.messier) :
              /\ Field(args.messier[i], "name_en") = None
              /\ Field(args.messier[i], "name") = None
                    \/ ~InSeq(",", Val(Field(args.messier[i], "name")))
              => Field(messier[i], "name_en") = Field(messier[i], "id")
    /\ (\A r \in 1..Len(args.bsc5p) :
            /\ Field(args.bsc5p[r], "namesAlt") = None
            /\ Field(args.bsc5p[r], "bayerAndOrFlamsteed") = None)
          => \A i \in 1..Len(bright) : Field(bright[i], "name_en") = Field(bright[i], "id")
\* The file is written, from a Messier row with an id for a name and a
\* bright-star row without names or designation, and holds a Messier record
\* and a bright-star record whose name_en is their id.
C4_Witness ==
    /\ file # None
    /\ \E i \in 1..Len(args.messier) :
          /\ Field(args.messier[i], "name_en") = None
          /\ Field(args.messier[i], "name") # None
          /\ ~InSeq(",", Val(Field(args.messier[i], "name")))
    /\ \E i, j \in 1..Len(Val(file)) :
          /\ Field(Val(file)[i], "catalog") = Some(Chars("Messier"))
          /\ Field(Val(file)[i], "name_en") = Field(Val(file)[i], "id")
          /\ Field(Val(file)[j], "catalog") = Some(Chars("BrightStar"))
          /\ Field(Val(file)[j], "name_en") = Field(Val(file)[j], "id")

\* C5 as documented: every record the normalisers build and every record of
\* the written file has a non-empty name_kr.
C5_NameKrNonEmpty ==
    \A seq \in {messier, bright, solar, written} :
        \A i \in 1..Len(seq) :
            Field(seq[i], "name_kr") # None /\ Val(Field(seq[i], "name_kr")) # EmptyStr

(***************************************************************************)
(* Properties of the bright-star normaliser                                *)
(***************************************************************************)
\* The threshold of the run, None when there is none.
C6_Threshold == mag_thr(args.bsc5p_mag)
\* The number the visualMagnitude of row r parses to, None when it is missing
\* or does not parse.
C6_Magnitude(r) == float_or_none(Field(r, "visualMagnitude"))
\* A threshold is given, the magnitude of row r parses, and the number is
\* strictly greater than the threshold.
C6_Over(r) ==
    /\ C6_Threshold # None
    /\ C6_Magnitude(r) # None
    /\ Val(C6_Magnitude(r)) > Val(C6_Threshold)
\* Row r has a common name.
C6_Named(r) ==
    Field(r, "namesAlt") # None /\ extract_common_names(Val(Field(r, "namesAlt"))) # <<>>
\* The rows of the bright-star input that are not over the threshold and,
\* under the common-names-only flag, have a common name.
C6_Kept ==
    SelectSeq(args.bsc5p, LAMBDA r : ~C6_Over(r) /\ (args.commonnames_only => C6_Named(r)))

TheRow == args.bsc5p[1]
\* The entries of the namesAlt of row r.
C8_Entries(r) == IF Field(r, "namesAlt") = None THEN <<>> ELSE Val(Field(r, "namesAlt"))
\* No entry of the namesAlt of row r starts with "NAME " in any case.
C8_NoNameEntry(r) ==
    \A i \in 1..Len(C8_Entries(r)) : ~StartsWith(Upper(C8_Entries(r)[i]), Chars("NAME "))
\* No entry of the namesAlt of row r, once trimmed, starts with "NAME " in any
\* case.
C8_NoTrimmedNameEntry(r) ==
    \A i \in 1..Len(C8_Entries(r)) : ~StartsWith(Upper(Strip(C8_Entries(r)[i])), Chars("NAME "))
\* The Bayer/Flamsteed designation of row r, trimmed, None when blank.
C8_Bayer(r) == norm_str(Field(r, "bayerAndOrFlamsteed"))

\* C8 as documented: for a row whose namesAlt has no entry starting with
\* "NAME ", the normaliser gives no record when the common-names-only flag is
\* set, and a record with an empty aliases_en when it is not.
C8_Original ==
    pc = "build_solar" /\ Len(args.bsc5p) = 1 /\ C8_NoNameEntry(TheRow) =>
        IF args.commonnames_only THEN bright = <<>>
        ELSE Len(bright) = 1 /\ Field(bright[1], "aliases_en") = Some(<<>>)
\* C8: for a row whose namesAlt has no entry that, once trimmed, starts with
\* "NAME ", the normaliser gives no record when the common-names-only flag is
\* set; when it is not set it gives a record unless the magnitude filter drops
\* the row, and the aliases_en of that record holds one name, its name_en,
\* which is the Bayer/Flamsteed designation, else the id.
C8_NoCommonNames ==
    pc = "build_solar" /\ Len(args.bsc5p) = 1 /\ C8_NoTrimmedNameEntry(TheRow) =>
        IF args.commonnames_only THEN bright = <<>>
        ELSE IF C6_Over(TheRow) THEN bright = <<>>
        ELSE /\ Len(bright) = 1
             /\ Field(bright[1], "aliases_en") = Some(<<Val(Field(bright[1], "name_en"))>>)
             /\ Field(bright[1], "name_en") =
                    IF C8_Bayer(TheRow) # None THEN C8_Bayer(TheRow) ELSE Field(bright[1], "id")
\* The normaliser has run, without the flag, on a row with a namesAlt that has
\* no "NAME " entry and without a Bayer/Flamsteed designation: the record is
\* there and its aliases_en holds its id.
C8_Witness ==
    /\ pc = "build_solar"
    /\ Len(args.bsc5p) = 1
    /\ ~args.commonnames_only
    /\ Field(TheRow, "namesAlt") # None
    /\ C8_NoTrimmedNameEntry(TheRow)
    /\ C8_Bayer(TheRow) = None
    /\ Len(bright) = 1
    /\ Field(bright[1], "aliases_en") = Some(<<Val(Field(bright[1], "id"))>>)

\* The value v of a designation field is neither missing nor blank.
C9_Given(v) == v # None /\ Strip(Val(v)) # EmptyStr
\* The id of row r as documented.
C9_Id(r) ==
    IF C9_Given(Field(r, "bayerAndOrFlamsteed")) THEN Strip(Val(Field(r, "bayerAndOrFlamsteed")))
    ELSE IF C9_Given(Field(r, "hdId")) THEN Chars("HD ") \o Strip(Val(Field(r, "hdId")))
    ELSE IF C9_Given(Field(r, "saoId")) THEN Chars("SAO ") \o Strip(Val(Field(r, "saoId")))
    ELSE IF C9_Given(Field(r, "dmId")) THEN Strip(Val(Field(r, "dmId")))
    ELSE IF C9_Given(Field(r, "adsId")) THEN Strip(Val(Field(r, "adsId")))
    ELSE IF Field(r, "lineNumber") # None THEN Chars("line:") \o Val(Field(r, "lineNumber"))
    ELSE Chars("line:?")
\* C9 as documented: the id of a bright-star record is the first non-empty of
\* the Bayer/Flamsteed designation, "HD <hdId>", "SAO <saoId>", the DM
\* designation, the ADS designation; with none of them it is
\* "line:<lineNumber>", and "line:?" when there is no line number.
C9_Original ==
    pc = "build_solar" /\ Len(args.bsc5p) = 1 /\ Len(bright) = 1 =>
        Field(bright[1], "id") = Some(C9_Id(TheRow))

(***************************************************************************)
(* Properties of the Messier parser                                        *)
(***************************************************************************)
\* The coordinates text of the one row of a run on one Messier row.
TheCoordinates == Field(args.messier[1], "coordinates")
\* The ra of the record of that row is that of h hours, m whole minutes and
\* sec hundredths of a second.
C10_RaIs(h, m, sec) == Field(messier[1], "ra") = Some(hms_to_str(h, m, sec))

\* C10 as documented: the fraction of the minutes, times 60, goes into the
\* seconds of ra only when the text has no seconds group; with a seconds
\* group the seconds of ra are the value of the group. "RA 05h 34.5m" gives
\* "05:34:30.00".
C10_Original ==
    pc = "normalize_bsc5p" /\ Len(args.messier) = 1 =>
        /\ \A h \in RaHours, m \in RaMinutes, s \in RaSeconds, d \in DecTexts :
              TheCoordinates = Some(ra_text(h, m, s, d)) =>
                  C10_RaIs(h.h, m.m, IF s.given THEN s.s ELSE m.frac * 60)
        /\ TheCoordinates = Some(Chars("RA 05h 34.5m")) =>
              Field(messier[1], "ra") = Some(Chars("05:34:30.00"))
\* C10: the fraction of the minutes, times 60, is added to the seconds of ra
\* in every case: to the value of the seconds group when the text has one, to
\* 0 when it has none. "RA 05h 34.5m" gives "05:34:30.00".
C10_FractionAlwaysAdded ==
    pc = "normalize_bsc5p" /\ Len(args.messier) = 1 =>
        /\ \A h \in RaHours, m \in RaMinutes, s \in RaSeconds, d \in DecTexts :
              TheCoordinates = Some(ra_text(h, m, s, d)) =>
                  C10_RaIs(h.h, m.m, (IF s.given THEN s.s ELSE 0) + m.frac * 60)
        /\ TheCoordinates = Some(Chars("RA 05h 34.5m")) =>
              Field(messier[1], "ra") = Some(Chars("05:34:30.00"))
\* The parser has run on a text with a fraction of a minute and a seconds
\* group, and the seconds of ra are their sum.
C10_Witness ==
    /\ pc = "normalize_bsc5p"
    /\ Len(args.messier) = 1
    /\ TheCoordinates = Some(Chars("RA 05h 34.5m 10s"))
    /\ Field(messier[1], "ra") = Some(Chars("05:34:40.00"))

\* The name text of the one row of a run on one Messier row, empty when the
\* row has none.
TheName == IF Field(args.messier[1], "name") = None THEN EmptyStr ELSE Val(Field(args.messier[1], "name"))
\* At position p of s stands the letter M, in either case, followed by a
\* digit.
C11_Anywhere(s, p) ==
    /\ s[p] \in {"M", "m"}
    /\ p + 1 <= Len(s)
    /\ IsDigit(s[p + 1])
\* At position p of s stands the letter M, in either case, that no letter,
\* digit or underscore precedes; after it, and after any white space, comes a
\* run of one to three digits that no letter, digit or underscore follows.
C11_Occurrence(s, p) ==
    /\ s[p] \in {"M", "m"}
    /\ p = 1 \/ ~IsWordChar(s[p - 1])
    /\ DigitRun(s, SkipSpace(s, p + 1)) \in 1..3
    /\ LET e == SkipSpace(s, p + 1) + DigitRun(s, SkipSpace(s, p + 1))
       IN  e > Len(s) \/ ~IsWordChar(s[e])
\* "M<n>" for the digits of the occurrence at position p of s.
C11_IdAt(s, p) ==
    <<"M">> \o NatStr(DigitsVal(SubSeq(s, SkipSpace(s, p + 1),
                                       SkipSpace(s, p + 1) + DigitRun(s, SkipSpace(s, p + 1)) - 1)))

\* C11 as documented: the id of a Messier record is "M?" exactly when the
\* name text has nowhere the letter M, in either case, followed by a digit.
C11_Original ==
    pc = "normalize_bsc5p" /\ Len(args.messier) = 1 =>
        (Field(messier[1], "id") = Some(Chars("M?")) <=>
            ~\E p \in 1..Len(TheName) : C11_Anywhere(TheName, p))
\* C11: the id of a Messier record is "M<n>", n without leading zeros, for
\* the first place of the name text where the letter M, in either case and
\* not preceded by a letter, digit or underscore, is followed, after optional
\* white space, by a run of one to three digits that no letter, digit or
\* underscore follows; it is "M?" when the name text has no such place or is
\* absent.
C11_MessierId ==
    pc = "normalize_bsc5p" /\ Len(args.messier) = 1 =>
        LET ps == {p \in 1..Len(TheName) : C11_Occurrence(TheName, p)}
        IN  Field(messier[1], "id") =
                IF ps = {} THEN Some(Chars("M?"))
                ELSE Some(C11_IdAt(TheName, CHOOSE p \in ps : \A q \in ps : p <= q))
\* The parser has run on a name with an M inside a word before the place that
\* gives the id.
C11_Witness ==
    /\ pc = "normalize_bsc5p"
    /\ Len(args.messier) = 1
    /\ TheName = Chars("Dim99 (M 8)")
    /\ Field(messier[1], "id") = Some(Chars("M8"))

(***************************************************************************)
(* Properties of the Korean names                                          *)
(***************************************************************************)
\* The name n is a key of the override table and kr is the value there.
C12_TableGives(n, kr) == \E i \in 1..Len(KO_MAP) : KO_MAP[i][1] = n /\ KO_MAP[i][2] = kr
\* The name n is a key of the override table.
C12_InTable(n) == \E i \in 1..Len(KO_MAP) : KO_MAP[i][1] = n

\* C12: a Messier record whose row has no name_kr field and whose name_en is
\* a key of the override table has the value of the table for name_kr; so has
\* a bright-star record; and the entry of aliases_kr that stands for an alias
\* in the table is the value of the table, whatever the transliteration
\* library does.
C12_OverrideTableWins ==
    /\ MessierDone =>
          \A i \in 1..Len(messier) :
              /\ Field(args.messier[i], "name_kr") = None
              /\ C12_InTable(Val(Field(messier[i], "name_en")))
              => C12_TableGives(Val(Field(messier[i], "name_en")), Val(Field(messier[i], "name_kr")))
    /\ \A i \in 1..Len(bright) :
          /\ C12_InTable(Val(Field(bright[i], "name_en")))
                => C12_TableGives(Val(Field(bright[i], "name_en")), Val(Field(bright[i], "name_kr")))
          /\ Len(Val(Field(bright[i], "aliases_kr"))) = Len(Val(Field(bright[i], "aliases_en")))
          /\ \A j \in 1..Len(Val(Field(bright[i], "aliases_en"))) :
                C12_InTable(Val(Field(bright[i], "aliases_en"))[j])
                => C12_TableGives(Val(Field(bright[i], "aliases_en"))[j],
                                  Val(Field(bright[i], "aliases_kr"))[j])
\* Both normalisers have run with the library at work: a Messier record and a
\* bright-star record have names of the table, and the bright-star record has
\* an alias outside the table, which the library wrote.
C12_Witness ==
    /\ pc = "build_solar"
    /\ hangulize = "ok"
    /\ \E i \in 1..Len(messier) : Field(messier[i], "name_en") = Some(Chars("Orion Nebula"))
    /\ \E i \in 1..Len(bright) :
          /\ Field(bright[i], "name_en") = Some(Chars("Sirius"))
          /\ \E j \in 1..Len(Val(Field(bright[i], "aliases_en"))) :
                /\ ~C12_InTable(Val(Field(bright[i], "aliases_en"))[j])
                /\ Val(Field(bright[i], "aliases_kr"))[j] # Val(Field(bright[i], "aliases_en"))[j]

(***************************************************************************)
(* Properties of the failures                                              *)
(***************************************************************************)
\* One of the two input files is missing or unreadable, is no JSON text, or
\* holds a JSON value that is neither a list nor an object.
C13_BadInput == args.messier_file # "ok" \/ args.bsc5p_file # "ok"

\* C13: a run with a bad input file never has an output file; the output file
\* is written in one step only, the last one of main, after the merge has
\* gone through every record and the list is sorted.
C13_NoOutputOnFailure ==
    /\ [](C13_BadInput => file = None /\ pc # "done")
    /\ [][file' # file =>
            /\ file = None
            /\ pc = "write" /\ pc' = "done"
            /\ idx = Len(items)
            /\ file' = Some(out)
            /\ out = sort_by_key([n \in 1..Len(by_id) |-> by_id[n].v])]_vars
\* A run has aborted on a bright-star file that is no JSON text, after it had
\* read a Messier file with rows; there is no output file.
C13_Witness ==
    /\ pc = "aborted"
    /\ args.messier_file = "ok"
    /\ args.messier # <<>>
    /\ args.bsc5p_file = "invalid"
    /\ file = None

\* C14 as documented: normalize_messier_simple returns on every list of rows,
\* with one Messier record per row.
C14_OneRecordPerRow ==
    [][pc = "normalize_messier" =>
        /\ pc' = "normalize_bsc5p"
        /\ Len(messier') = Len(args.messier)
        /\ \A i \in 1..Len(messier') : Field(messier'[i], "catalog") = Some(Chars("Messier"))]_vars

(***************************************************************************)
(* Properties of the solar-system records                                  *)
(***************************************************************************)
\* The satellites of the table.
C15_Satellites ==
    {Chars("Moon"), Chars("Ganymede"), Chars("Io"), Chars("Callisto"), Chars("Europa"),
     Chars("Titan")}
\* The type documented for the body en.
C15_Type(en) ==
    IF en \in C15_Satellites THEN Chars("Moon")
    ELSE IF en = Chars("Pluto") THEN Chars("DwarfPlanet")
    ELSE Chars("Planet")
\* The record of entry i of the table has the id, catalog, names and null
\* coordinates documented.
C15_Entry(i) ==
    /\ Field(solar[i], "id") = Some(Chars("planet:") \o Lower(SOLAR_SYSTEM[i][1]))
    /\ Field(solar[i], "catalog") = Some(Chars("SolarSystem"))
    /\ Field(solar[i], "name_en") = Some(SOLAR_SYSTEM[i][1])
    /\ Field(solar[i], "name_kr") = Some(SOLAR_SYSTEM[i][2])
    /\ Field(solar[i], "ra") = None
    /\ Field(solar[i], "dec") = None
\* C15 as documented: build_solar_bodies gives one record per entry of the
\* table, with id "planet:<en lowercased>", catalog SolarSystem, null ra and
\* dec, and the type "Moon" for a satellite, "DwarfPlanet" for Pluto and
\* "Planet" for every other body.
C15_SolarTypes ==
    pc \in {"merge", "write", "done"} =>
        /\ Len(solar) = Len(SOLAR_SYSTEM)
        /\ \A i \in 1..Len(solar) :
              C15_Entry(i) /\ Field(solar[i], "type") = Some(C15_Type(SOLAR_SYSTEM[i][1]))

(***************************************************************************)
(* C16: what stands for a name when the library is missing or fails        *)
(***************************************************************************)
\* The pairs <<English name, Korean name>> the normalisers computed for
\* names outside the override table: the names of the Messier records whose
\* row has no name_kr field, the names of the bright-star records and their
\* aliases.
C16_Pairs ==
    LET all ==
          { <<Val(Field(messier[i], "name_en")), Val(Field(messier[i], "name_kr"))>> :
              i \in { i \in 1..Len(messier) : Field(args.messier[i], "name_kr") = None } }
          \cup { <<Val(Field(bright[i], "name_en")), Val(Field(bright[i], "name_kr"))>> :
                   i \in 1..Len(bright) }
          \cup UNION { { <<Val(Field(bright[i], "aliases_en"))[j],
                           Val(Field(bright[i], "aliases_kr"))[j]>> :
                           j \in 1..Len(Val(Field(bright[i], "aliases_en"))) } :
                       i \in 1..Len(bright) }
    IN  { p \in all : ~C12_InTable(p[1]) }
\* The name as it is left when every token fails: its tokens, joined.
C16_Tokens(n) == Join(SplitTokens(Strip(n), <<>>))
\* C16 as stated: when the library is missing or fails, the Korean name of a
\* name outside the override table is the output of the rule-based mapper.
C16_Original ==
    hangulize # "ok" => \A p \in C16_Pairs : p[2] = eng_to_hangul_simple(p[1])
\* C16: when the library is missing, the Korean name of a name outside the
\* override table is the English name itself; when the library fails on
\* every token, it is the English name without its white space and hyphens
\* (the untransliterated tokens, joined). The rule-based mapper is not used.
C16_Untransliterated ==
    /\ hangulize = "missing" => \A p \in C16_Pairs : p[2] = p[1]
    /\ hangulize = "raises" => \A p \in C16_Pairs : p[2] = C16_Tokens(p[1])
\* The library fails, both normalisers have run: the Messier record of the
\* Crab Nebula and the alias Dog Star of a bright star are outside the table,
\* their Korean names are the Latin letters, not the mapper's syllables.
C16_Witness ==
    /\ pc = "build_solar"
    /\ hangulize = "raises"
    /\ <<Chars("Crab Nebula"), Chars("CrabNebula")>> \in C16_Pairs
    /\ <<Chars("Dog Star"), Chars("DogStar")>> \in C16_Pairs
    /\ eng_to_hangul_simple(Chars("Dog Star")) # Chars("DogStar")

(***************************************************************************)
(* C17: the transliteration never raises                                   *)
(***************************************************************************)
\* C17: eng_to_hangul raises on no name, whatever the library does, and gives
\* the empty string for an empty name; the names outside the override table
\* have the value it returns. So the Messier normaliser gives one record per
\* row on rows that are JSON objects, and the bright-star normaliser gives one
\* record per row that passes its filters, with the library missing, failing
\* or at work.
C17_NeverRaises ==
    /\ [](/\ eng_to_hangul(EmptyStr) = EmptyStr
          /\ ~eng_to_hangul_raises(EmptyStr)
          /\ \A p \in C16_Pairs : ~eng_to_hangul_raises(p[1]) /\ p[2] = eng_to_hangul(p[1]))
    /\ [][/\ pc = "normalize_messier"
          /\ \A i \in 1..Len(args.messier) : IsObject(args.messier[i])
          => /\ pc' = "normalize_bsc5p"
             /\ Len(messier') = Len(args.messier)]_vars
    /\ [][pc = "normalize_bsc5p"
          => /\ pc' = "build_solar"
             /\ Len(bright') = Len(C6_Kept)]_vars
\* The library is missing and both normalisers have run: a Messier record and
\* a bright-star record were produced for names outside the override table,
\* and their Korean names are the names as they were given.
C17_Witness ==
    /\ pc = "build_solar"
    /\ hangulize = "missing"
    /\ \E i \in 1..Len(messier) :
          /\ ~C12_InTable(Val(Field(messier[i], "name_en")))
          /\ Field(messier[i], "name_kr") = Field(messier[i], "name_en")
    /\ \E i \in 1..Len(bright) :
          /\ ~C12_InTable(Val(Field(bright[i], "name_en")))
          /\ Field(bright[i], "name_kr") = Field(bright[i], "name_en")
          /\ Val(Field(bright[i], "name_en")) # EmptyStr

(***************************************************************************)
(* Properties of the choice of the primary name                            *)
(***************************************************************************)
\* The common names of the row, as extract_common_names lists them.
TheCandidates == extract_common_names(Val(Field(TheRow, "namesAlt")))
TheCandidatesInTable == {i \in 1..Len(TheCandidates) : C12_InTable(TheCandidates[i])}
\* C18: when a common name of the row is a key of the override table, the
\* primary name is the first common name that is, whatever the scores of the
\* others.
C18_TableFirst ==
    pc = "build_solar" /\ TheCandidatesInTable # {}
    => \E i \in TheCandidatesInTable :
          /\ Field(bright[1], "name_en") = Some(TheCandidates[i])
          /\ \A j \in TheCandidatesInTable : i <= j
\* The row lists Ab, then Vega, then Sirius: Vega is taken, though it is
\* neither the first candidate nor the shortest, and Sirius is in the table
\* too.
C18_Witness ==
    /\ pc = "build_solar"
    /\ TheCandidates = <<Chars("Ab"), Chars("Vega"), Chars("Sirius")>>
    /\ Field(bright[1], "name_en") = Some(Chars("Vega"))

\* What choose_primary_en returns on the row: its candidates and the
\* fallbacks the normaliser passes, the Bayer designation and the id.
C19_Fallbacks == <<norm_str(Field(TheRow, "bayerAndOrFlamsteed")), Some(bsc5p_id(TheRow))>>
C19_Chosen == choose_primary_en(TheCandidates, C19_Fallbacks)
C19_NotAfter(a, b) == ~ScoreLess(score(b), score(a))
\* C19: when no common name of the row is in the override table and there is
\* one, the chosen name is a candidate whose tuple (generic word, words,
\* length) no candidate is below, and the earliest of those; the aliases
\* after the primary name are the other candidates in the order of the row,
\* so the list of the caller keeps its order. Without candidates the chosen
\* name is the Bayer designation if the row has one, else the id. The name_en
\* of the record is the chosen name as norm_str writes it.
C19_MinimalScore ==
    pc = "build_solar" /\ TheCandidatesInTable = {}
    => /\ Field(bright[1], "name_en") = norm_str(Some(C19_Chosen))
       /\ TheCandidates # <<>> =>
             /\ \E i \in 1..Len(TheCandidates) :
                   /\ C19_Chosen = TheCandidates[i]
                   /\ \A j \in 1..Len(TheCandidates) : C19_NotAfter(TheCandidates[i], TheCandidates[j])
                   /\ \A j \in 1..(i - 1) : ScoreLess(score(TheCandidates[i]), score(TheCandidates[j]))
             /\ Tail(Val(Field(bright[1], "aliases_en")))
                  = SelectSeq(TheCandidates, LAMBDA n : Some(n) # Field(bright[1], "name_en"))
       /\ TheCandidates = <<>> =>
             C19_Chosen = IF Truthy(C19_Fallbacks[1]) THEN Val(C19_Fallbacks[1])
                          ELSE Val(C19_Fallbacks[2])
\* The row lists Dog Star, Zz and Ab: Zz and Ab have the same tuple, below
\* that of Dog Star; Zz is chosen and the other two follow it in the order of
\* the row.
C19_Witness ==
    /\ pc = "build_solar"
    /\ TheCandidates = <<Chars("Dog Star"), Chars("Zz"), Chars("Ab")>>
    /\ score(Chars("Zz")) = score(Chars("Ab"))
    /\ ScoreLess(score(Chars("Zz")), score(Chars("Dog Star")))
    /\ Field(bright[1], "aliases_en") = Some(<<Chars("Zz"), Chars("Dog Star"), Chars("Ab")>>)

(***************************************************************************)
(* Properties of aliases_en                                                *)
(***************************************************************************)
\* An entry that starts with "NAME " in any case and has something after it.
C20_Remainder(t) == Strip(Drop(t, 5))
C20_IsName(t) == StartsWith(Upper(t), Chars("NAME ")) /\ C20_Remainder(t) # EmptyStr
\* The remainders of the entries that are names, each once, in the order in
\* which they are first seen.
C20_CandidatesOf(entries) ==
    LET named == SelectSeq(entries, C20_IsName)
    IN  Dedup([i \in 1..Len(named) |-> C20_Remainder(named[i])], <<>>)
\* The entries of namesAlt, the white space around each removed.
C20_Entries ==
    LET e == Val(Field(TheRow, "namesAlt")) IN [i \in 1..Len(e) |-> Strip(e[i])]
C20_Candidates == C20_CandidatesOf(C20_Entries)
C20_NoRepeat(seq) == \A i, j \in 1..Len(seq) : seq[i] = seq[j] => i = j
\* The candidates that remain when the primary name is taken: those of which
\* name_en is not the normalised spelling.
C20_Remaining ==
    SelectSeq(C20_Candidates, LAMBDA n : norm_str(Some(n)) # Field(bright[1], "name_en"))
\* C20 as documented: aliases_en is name_en followed by the remaining
\* candidates in first-seen order, without repeats, the candidates being the
\* remainders of the entries of namesAlt that start with "NAME ".
C20_Original ==
    pc = "build_solar" =>
        /\ Field(bright[1], "aliases_en")
             = Some(<<Val(Field(bright[1], "name_en"))>> \o C20_Remaining)
        /\ C20_NoRepeat(Val(Field(bright[1], "aliases_en")))
\* What the normaliser computes: name_en followed by the candidates that are
\* not the same string as name_en, in first-seen order. A chosen candidate
\* that norm_str rewrote stays in the list in its own spelling.
C20_AsComputed ==
    pc = "build_solar" =>
        /\ Field(bright[1], "aliases_en")
             = Some(<<Val(Field(bright[1], "name_en"))>>
                    \o SelectSeq(C20_Candidates,
                                 LAMBDA n : Some(n) # Field(bright[1], "name_en")))
        /\ C20_NoRepeat(Val(Field(bright[1], "aliases_en")))
        /\ \A i \in 1..Len(bright) :
              Val(Field(bright[i], "aliases_en")) # <<Val(Field(bright[i], "name_en"))>> \o C20_Remaining
              => Val(Field(bright[i], "name_en")) = <<"A", "'">>

(***************************************************************************)
(* Properties of aliases_kr                                                *)
(***************************************************************************)
\* C21 as documented: the aliases_kr of a bright-star record holds no string
\* twice.
C21_AliasesKrDistinct ==
    pc = "build_solar" => C20_NoRepeat(Val(Field(bright[1], "aliases_kr")))
\* What the normaliser computes: aliases_kr is the Korean name of each entry
\* of aliases_en, place by place, and it repeats a string only when two
\* aliases have the same tokens.
C21_AsComputed ==
    pc = "build_solar" =>
        /\ Len(Val(Field(bright[1], "aliases_kr"))) = Len(Val(Field(bright[1], "aliases_en")))
        /\ \A i \in 1..Len(Val(Field(bright[1], "aliases_en"))) :
              Val(Field(bright[1], "aliases_kr"))[i] = ko_name(Val(Field(bright[1], "aliases_en"))[i])
        /\ ~C20_NoRepeat(Val(Field(bright[1], "aliases_kr")))
           => /\ InSeq(Chars("Big Ab"), Val(Field(bright[1], "aliases_en")))
              /\ InSeq(Chars("Big-Ab"), Val(Field(bright[1], "aliases_en")))

(***************************************************************************)
(* Properties of the name_en of a Messier record                           *)
(***************************************************************************)
\* The name_en field of the row when it holds a name, its blanks removed.
C22_Explicit ==
    IF Field(args.messier[1], "name_en") # None
       /\ Strip(Val(Field(args.messier[1], "name_en"))) # EmptyStr
    THEN Some(Strip(Val(Field(args.messier[1], "name_en"))))
    ELSE None
\* The comma-separated parts of the name field, the blanks around each
\* removed; none when the row has no name.
C22_Segments ==
    LET sp == SplitComma(Strip(TheName), <<>>)
    IN  IF Strip(TheName) = EmptyStr THEN <<>> ELSE [i \in 1..Len(sp) |-> Strip(sp[i])]
\* s without its last character when that is a period.
C22_OnePeriodLess(s) ==
    IF s # <<>> /\ s[Len(s)] = "." THEN SubSeq(s, 1, Len(s) - 1) ELSE s
\* s without the periods at its end.
C22_NoPeriods(s) ==
    SubSeq(s, 1, Len(s) - Cardinality({i \in 1..Len(s) : \A j \in i..Len(s) : s[j] = "."}))
C23_Dec(sg, d, m, sec) == dms_to_str(IF sg.minus THEN 0 - 1 ELSE 1, d.d, m.m, sec)
\* C23 as documented: dec has '-' exactly when the text has a minus sign
\* before the degrees, also for 0 degrees, the degrees and minutes of the
\* text, and its seconds when it gives some, else 0; without a declination in
\* the text dec is null and the record is there.
C23_Original ==
    pc = "normalize_bsc5p" =>
        /\ Len(messier) = 1
        /\ \A l \in DecLabels, sg \in DecSigns, d \in DecDegrees, m \in DecMinutes, s \in DecSeconds :
              TheCoordinates = Some(dec_text(l, sg, d, m, s))
              => Field(messier[1], "dec") = Some(C23_Dec(sg, d, m, s.s))
        /\ \A h \in RaHours, m \in RaMinutes, s \in RaSeconds :
              TheCoordinates = Some(ra_text(h, m, s, EmptyStr))
              => Field(messier[1], "dec") = None
\* What the parser computes: the same, but the seconds that follow minutes
\* marked with a prime (U+2032) are not read, and the seconds of dec are 0.
C23_AsComputed ==
    pc = "normalize_bsc5p" =>
        /\ Len(messier) = 1
        /\ \A l \in DecLabels, sg \in DecSigns, d \in DecDegrees, m \in DecMinutes, s \in DecSeconds :
              TheCoordinates = Some(dec_text(l, sg, d, m, s))
              => Field(messier[1], "dec") =
                   Some(C23_Dec(sg, d, m, IF m.text[Len(m.text)] = "U+2032" THEN 0 ELSE s.s))
        /\ \A h \in RaHours, m \in RaMinutes, s \in RaSeconds :
              TheCoordinates = Some(ra_text(h, m, s, EmptyStr))
              => Field(messier[1], "dec") = None

(***************************************************************************)
(* Runs on one bright-star row, its coordinate components drawn one by one *)
(* Each component is absent, null, a JSON number (in hundredths) or a JSON *)
(* string. The components that int() and float() accept all stand for      *)
(* 6h 45m 8.92s and 16 deg 42' 58.01".                                     *)
(***************************************************************************)
CoordHours ==
    { NoField,
      "hoursRaJ2000" :> None,
      "hoursRaJ2000" :> Some([num |-> 600]),
      "hoursRaJ2000" :> Some([str |-> Chars(" 06 ")]),
      "hoursRaJ2000" :> Some([str |-> Chars("6h")]),
      "hoursRaJ2000" :> Some([str |-> Chars("6.0")]) }
CoordMinutes ==
    { NoField,
      "minutesRaJ2000" :> Some([num |-> 4500]) }
CoordSeconds ==
    { "secondsRaJ2000" :> Some([num |-> 892]),
      "secondsRaJ2000" :> Some([str |-> Chars("8.92")]),
      "secondsRaJ2000" :> Some([str |-> EmptyStr]) }
CoordSigns ==
    { NoField,
      "signDecJ2000" :> Some([str |-> Chars("+")]),
      "signDecJ2000" :> Some([str |-> Chars("-")]),
      "signDecJ2000" :> Some([num |-> 100]) }
CoordDegrees ==
    { NoField,
      "degreesDecJ2000" :> Some([num |-> 1600]),
      "degreesDecJ2000" :> Some([str |-> Chars("16")]),
      "degreesDecJ2000" :> Some([str |-> Chars("sixteen")]) }
CoordDecMinutes ==
    { "minutesDecJ2000" :> None,
      "minutesDecJ2000" :> Some([num |-> 4200]) }
CoordDecSeconds ==
    { "secondsDecJ2000" :> Some([num |-> 5801]),
      "secondsDecJ2000" :> Some([str |-> Chars("58.01")]),
      "secondsDecJ2000" :> Some([str |-> Chars("n/a")]) }
\* The fields of the row besides its coordinates.
CoordStar ==
    [bayerAndOrFlamsteed |-> Some(Chars("9 Alp CMa")),
     hdId |-> Some(Chars("48915")),
     visualMagnitude |-> Some(Chars("-1.46")),
     spectralType |-> Some(Chars("A1Vm")),
     namesAlt |-> Some(<<Chars("NAME Sirius"), Chars("NAME Dog Star")>>)]
CoordRows ==
    { h @@ m @@ s @@ sg @@ d @@ dm @@ ds @@ CoordStar :
        h \in CoordHours, m \in CoordMinutes, s \in CoordSeconds, sg \in CoordSigns,
        d \in CoordDegrees, dm \in CoordDecMinutes, ds \in CoordDecSeconds }

InitCoords ==
    /\ \E row \in CoordRows :
          args = [messier_file |-> "ok", messier |-> <<>>,
                  bsc5p_file |-> "ok", bsc5p |-> <<row>>, bsc5p_mag |-> Chars("6.5"),
                  commonnames_only |-> FALSE]
    /\ hangulize \in {"missing", "ok"}
    /\ pc = "normalize_bsc5p"
    /\ messier = <<>>
    /\ bright = <<>>
    /\ solar = <<>>
    /\ idx = 0
    /\ by_id = <<>>
    /\ out = <<>>
    /\ file = None
    /\ LogbookIdle

NextCoords == NormalizeBsc5p

SpecCoords == InitCoords /\ [][NextCoords]_vars

(***************************************************************************)
(* Properties of the coordinates of a bright-star record                   *)
(***************************************************************************)
\* Component k of the row is missing, null, or a text that is no number.
C24_Broken(k) ==
    \/ Field(TheRow, k) = None
    \/ Val(Field(TheRow, k)) \in { [str |-> Chars("6h")], [str |-> Chars("6.0")],
                                   [str |-> EmptyStr], [str |-> Chars("sixteen")],
                                   [str |-> Chars("n/a")] }
C24_RaBroken ==
    C24_Broken("hoursRaJ2000") \/ C24_Broken("minutesRaJ2000") \/ C24_Broken("secondsRaJ2000")
\* The sign of dec is no component with a number in it; it breaks dec when it
\* is a JSON number other than 0.
C24_DecBroken ==
    \/ C24_Broken("degreesDecJ2000") \/ C24_Broken("minutesDecJ2000")
    \/ C24_Broken("secondsDecJ2000")
    \/ Field(TheRow, "signDecJ2000") = Some([num |-> 100])
\* The record of the row of the runs whose components are all JSON numbers.
C24_Whole ==
    bsc5p_row([hoursRaJ2000 |-> Some([num |-> 600]),
               minutesRaJ2000 |-> Some([num |-> 4500]),
               secondsRaJ2000 |-> Some([num |-> 892]),
               signDecJ2000 |-> Some([str |-> Chars("-")]),
               degreesDecJ2000 |-> Some([num |-> 1600]),
               minutesDecJ2000 |-> Some([num |-> 4200]),
               secondsDecJ2000 |-> Some([num |-> 5801])] @@ TheRow,
              mag_thr(args.bsc5p_mag), args.commonnames_only).rec
\* The sign that dec gets: "-" for the text "-", "+" otherwise.
C24_Sign == IF Field(TheRow, "signDecJ2000") = Some([str |-> Chars("-")]) THEN "-" ELSE "+"

\* C24: a bright-star row gives its record whatever its coordinate components
\* are; ra is null exactly when a component of ra is missing, null or no
\* number, and is the formatted value otherwise, whatever the components of
\* dec are; dec likewise (a sign that is a JSON number breaks it too); and
\* every other field of the record is what it is for the same row with whole
\* coordinates.
C24_FieldLevel ==
    pc = "build_solar" =>
        /\ Len(bright) = 1
        /\ Field(bright[1], "ra")
             = (IF C24_RaBroken THEN None ELSE Some(Chars("06:45:08.92")))
        /\ Field(bright[1], "dec")
             = (IF C24_DecBroken THEN None ELSE Some(<<C24_Sign>> \o Chars("16:42:58.01")))
        /\ DOMAIN bright[1] = DOMAIN C24_Whole
        /\ \A k \in DOMAIN C24_Whole \ {"ra", "dec"} : bright[1][k] = C24_Whole[k]
\* A row with hours that are no number and a whole dec has its record, with a
\* null ra and the dec formatted; a row with a whole ra and no degrees has the
\* ra formatted and a null dec.
C24_Witness ==
    /\ pc = "build_solar"
    /\ Field(TheRow, "hoursRaJ2000") = Some([str |-> Chars("6h")])
    /\ ~C24_DecBroken
    /\ Len(bright) = 1
    /\ Field(bright[1], "ra") = None
    /\ Field(bright[1], "dec") = Some(Chars("-16:42:58.01"))
    /\ Field(bright[1], "name_en") = Some(Chars("Sirius"))

(***************************************************************************)
(* The write of the output file, step by step                              *)
(* open(path, "w") empties the file or creates it; json.dump writes the    *)
(* text piece by piece; the with statement closes the file, also when a    *)
(* write raises (a full disk, a size limit, an interrupt). A file that     *)
(* holds the opening bracket and the records recs and ends there is        *)
(* Partial(recs).                                                          *)
(***************************************************************************)
Partial(recs) == <<recs, "cut">>
IsPartial(f) == Len(f) = 2
\* The catalog an earlier run without input rows has left at the output path.
OldCatalog == sort_by_key(build_solar_bodies)

\* open(args.out, "w")
OpenOut ==
    /\ pc = "write"
    /\ file' = Partial(<<>>)
    /\ pc' = "dump"
    /\ UNCHANGED <<args, hangulize, messier, bright, solar, idx, by_id, out, logbook>>
\* open(args.out, "w") raises (no such directory, no permission): nothing
\* catches it.
OpenOutFails ==
    /\ pc = "write"
    /\ pc' = "aborted"
    /\ UNCHANGED <<args, hangulize, messier, bright, solar, idx, by_id, out, file, logbook>>
\* json.dump writes the next record.
DumpRecord ==
    /\ pc = "dump"
    /\ Len(file[1]) < Len(out)
    /\ file' = Partial(Append(file[1], out[Len(file[1]) + 1]))
    /\ UNCHANGED <<pc, args, hangulize, messier, bright, solar, idx, by_id, out, logbook>>
\* A write of json.dump raises: the with statement closes the file with what
\* it holds, and nothing catches the exception.
DumpFails ==
    /\ pc = "dump"
    /\ pc' = "aborted"
    /\ UNCHANGED <<args, hangulize, messier, bright, solar, idx, by_id, out, file, logbook>>
\* The closing bracket is written and the file closed.
CloseOut ==
    /\ pc = "dump"
    /\ Len(file[1]) = Len(out)
    /\ file' = Some(file[1])
    /\ pc' = "done"
    /\ UNCHANGED <<args, hangulize, messier, bright, solar, idx, by_id, out, logbook>>

InitWrite ==
    /\ \E ms \in SeqsUpTo(MessierRows, 1) :
          args = [messier_file |-> "ok", messier |-> ms, bsc5p_file |-> "ok", bsc5p |-> <<>>,
                  bsc5p_mag |-> Chars("6.5"), commonnames_only |-> FALSE]
    /\ hangulize = "missing"
    /\ pc = "load_messier"
    /\ messier = <<>>
    /\ bright = <<>>
    /\ solar = <<>>
    /\ idx = 0
    /\ by_id = <<>>
    /\ out = <<>>
    /\ file \in {None, Some(OldCatalog)}
    /\ LogbookIdle

NextWrite ==
    \/ LoadMessier
    \/ LoadBsc5p
    \/ IterInputs
    \/ NormalizeMessier
    \/ NormalizeBsc5p
    \/ BuildSolar
    \/ MergeItem
    \/ Sort
    \/ OpenOut
    \/ OpenOutFails
    \/ DumpRecord
    \/ DumpFails
    \/ CloseOut

SpecWrite == InitWrite /\ [][NextWrite]_vars

(***************************************************************************)
(* Properties of the write                                                 *)
(***************************************************************************)
\* C25 as documented: at every point of a run the output path holds what it
\* held before the run (or nothing), or the whole new array, and never a cut
\* text.
C25_Atomic == file \in {None, Some(OldCatalog), Some(out)}
\* C25 as computed: the path keeps what it held until the file is opened;
\* from then on it holds the first records of the new array, cut, until the
\* close; a run that stops in between leaves the cut text, also where a whole
\* catalog was before; a run that ends well leaves the whole new array.
C25_AsWritten ==
    /\ pc \notin {"dump", "done", "aborted"} => file \in {None, Some(OldCatalog)}
    /\ pc = "dump" =>
          IsPartial(file) /\ Len(file[1]) <= Len(out) /\ file[1] = SubSeq(out, 1, Len(file[1]))
    /\ pc = "done" => file = Some(out)
    /\ pc = "aborted" /\ IsPartial(file) => file[1] = SubSeq(out, 1, Len(file[1]))
\* A run has stopped in the middle of the write: the path holds a cut text
\* with some of the records.
C25_Truncated ==
    /\ pc = "aborted"
    /\ IsPartial(file)
    /\ Len(file[1]) > 0
    /\ Len(file[1]) < Len(out)

(***************************************************************************)
(* Properties of the aliases of the output                                 *)
(***************************************************************************)
\* Record o has no aliases_en, or its aliases_en start with its name_en and
\* its aliases_kr with its name_kr.
C26_PrimaryFirst(o) ==
    Field(o, "aliases_en") # None =>
        /\ Val(Field(o, "aliases_en")) # <<>>
        /\ Some(Val(Field(o, "aliases_en"))[1]) = Field(o, "name_en")
        /\ Field(o, "aliases_kr") # None
        /\ Val(Field(o, "aliases_kr")) # <<>>
        /\ Some(Val(Field(o, "aliases_kr"))[1]) = Field(o, "name_kr")
\* C26 as documented: in every record of the output that has aliases_en, the
\* first of aliases_en is name_en and the first of aliases_kr is name_kr.
C26_Original == \A i \in 1..Len(out) : C26_PrimaryFirst(out[i])
\* C26 as computed: the aliases of an output record start with its names when
\* the first item of its id in the merge order has aliases and a name_kr that
\* is not empty; the records of that kind come out of the merge with the names
\* and the aliases of that first item.
C26_AsComputed ==
    pc \in {"write", "done"} =>
        \A i \in 1..Len(out) :
            LET o == out[i]
                f == items[FirstWith(Val(Field(o, "id")))]
            IN  /\ Field(f, "aliases_en") # None /\ Truthy(Field(f, "name_kr"))
                     => C26_PrimaryFirst(o) /\ Field(o, "aliases_en") = Field(f, "aliases_en")
                /\ Field(f, "aliases_en") # None => C26_PrimaryFirst(f)
\* A Messier record and a bright-star record of the same id were merged: the
\* output record has the names of the first and the aliases of the second.
C26_Merged ==
    /\ pc = "done"
    /\ \E i \in 1..Len(written) :
          /\ Field(written[i], "catalog") = Some(Chars("Messier"))
          /\ Field(written[i], "name_en") = Some(Chars("M1"))
          /\ Field(written[i], "aliases_en") = Some(<<Chars("-")>>)

(***************************************************************************)
(* Runs on Messier rows without an M-number                                *)
(***************************************************************************)
\* The most rows of the Messier file of these runs.
MaxUnnumbered == 3
\* A row with a name only; the row with name_en, dec and a magnitude that is
\* no number; a row whose name gives the name_en "-" and that has ra and a
\* magnitude; a row with a name_kr, ra and dec and a higher magnitude.
UnnumberedRows ==
    { [name |-> Some(Chars("Orion Nebula"))],
      [name_en |-> Some(Chars("Orion Nebula")),
       coordinates |-> Some(Chars("LD. -05") \o Deg \o Chars(" 23' 12.5\"")),
       magnitude |-> Some(Chars("none"))],
      [name |-> Some(Chars("Messier, -.")),
       coordinates |-> Some(Chars("RA 05h 34m 30s")),
       magnitude |-> Some(Chars("4.0"))],
      [name_kr |-> Some(<<"U+C131", "U+C6B4">>),
       coordinates |-> Some(Chars("RA 05h 35.0m, Dec +22") \o Deg \o Chars(" 01'")),
       magnitude |-> Some(Chars("8.4"))] }

InitUnnumbered ==
    /\ \E ms \in SeqsUpTo(UnnumberedRows, MaxUnnumbered) :
          args = [messier_file |-> "ok", messier |-> ms, bsc5p_file |-> "ok", bsc5p |-> <<>>,
                  bsc5p_mag |-> Chars("6.5"), commonnames_only |-> FALSE]
    /\ hangulize \in {"missing", "ok"}
    /\ pc = "load_messier"
    /\ messier = <<>>
    /\ bright = <<>>
    /\ solar = <<>>
    /\ idx = 0
    /\ by_id = <<>>
    /\ out = <<>>
    /\ file = None
    /\ LogbookIdle

SpecUnnumbered == InitUnnumbered /\ [][Next]_vars

(***************************************************************************)
(* Properties of the records without an M-number                           *)
(***************************************************************************)
\* The places of the output records with the id "M?".
C27_Places == {i \in 1..Len(out) : Field(out[i], "id") = Some(Chars("M?"))}
\* The value v of field k is null or "" (a magnitude is a number or null).
C27_NoValue(k, v) == v = None \/ (k # "magnitude" /\ Val(v) = EmptyStr)
\* The Messier records, in input order, whose field k is neither null nor "".
C27_With(k) == {i \in 1..Len(messier) : ~C27_NoValue(k, Field(messier[i], k))}

\* C27: every Messier row without an M-number gets the id "M?"; the output of
\* a run with such rows, however many, has exactly one record of that id, and
\* each field of it is the first value, in input order, that is neither null
\* nor "" among the records of those rows (null or "" when there is none).
C27_OneUnnumbered ==
    /\ MessierDone => /\ Len(messier) = Len(args.messier)
                      /\ \A i \in 1..Len(messier) : Field(messier[i], "id") = Some(Chars("M?"))
    /\ pc \in {"write", "done"} =>
          /\ Cardinality(C27_Places) = (IF args.messier = <<>> THEN 0 ELSE 1)
          /\ \A p \in C27_Places :
                /\ DOMAIN out[p] = DOMAIN messier[1]
                /\ \A k \in DOMAIN out[p] :
                      IF C27_With(k) = {} THEN C27_NoValue(k, out[p][k])
                      ELSE out[p][k] = messier[MinOf(C27_With(k))][k]
    /\ pc = "done" => written = out
\* Three rows without an M-number were merged into one written record: the
\* names of the first row, the dec of the second, the ra and the magnitude of
\* the third.
C27_Witness ==
    /\ pc = "done"
    /\ Len(args.messier) = 3
    /\ \E i \in 1..Len(written) :
          /\ Field(written[i], "id") = Some(Chars("M?"))
          /\ Field(written[i], "name_en") = Some(Chars("M?"))
          /\ Field(written[i], "dec") = Some(Chars("-05:23:12.50"))
          /\ Field(written[i], "ra") = Some(Chars("05:34:30.00"))
          /\ Field(written[i], "magnitude") = Some(400)
          /\ Field(messier[1], "dec") = None
          /\ Field(messier[2], "ra") = None
    /\ Cardinality({i \in 1..Len(written) : Field(written[i], "id") = Some(Chars("M?"))}) = 1

(***************************************************************************)
(* Properties of the ids of the output                                     *)
(***************************************************************************)
\* The ids of the records of a list.
C28_Ids(recs) == {Field(recs[i], "id") : i \in 1..Len(recs)}
\* The ids of the solar-system table.
C28_SolarIds ==
    { Some(Chars("planet:") \o Chars(n)) :
        n \in {"mercury", "venus", "earth", "mars", "jupiter", "saturn", "uranus", "neptune",
               "pluto", "moon", "ganymede", "io", "callisto", "europa", "titan"} }

\* C28: once main has sorted, the ids of the output are the ids of the records
\* of the three normalisers, each once: the 15 ids of the solar-system table
\* are all there, and the output has as many records as there are ids. The
\* written file holds the same records.
C28_IdsKept ==
    /\ pc \in {"write", "done"} =>
          /\ C28_Ids(out) = C28_Ids(messier) \cup C28_Ids(bright) \cup C28_Ids(solar)
          /\ C28_SolarIds \subseteq C28_Ids(out)
          /\ Cardinality(C28_SolarIds) = 15
          /\ Len(out) = Cardinality(C28_Ids(out))
          /\ None \notin C28_Ids(out)
    /\ pc = "done" => C28_Ids(written) = C28_Ids(out) /\ Len(written) = Len(out)
\* A run with two Messier rows of one id has written the 15 records of the
\* table and one record for that id.
C28_Witness ==
    /\ pc = "done"
    /\ Len(messier) = 2
    /\ Field(messier[1], "id") = Field(messier[2], "id")
    /\ Len(written) = 16
    /\ C28_Ids(written) = C28_SolarIds \cup {Field(messier[1], "id")}

(***************************************************************************)
(* app/app.py: the observation logbook                                     *)
(* Streamlit runs the script from the top after every event. An action is  *)
(* one event: the callback or the branch of the script it triggers, and    *)
(* the runs of the script after it until the page is at rest. Each run     *)
(* computes found_object anew from the search box (lines 160-209).         *)
(* A row of the table holds its id, the celestial_id and the day of        *)
(* observation_date; the clock goes forward between two saves, so a later  *)
(* row has a later observation_date. Notes and images are left out.        *)
(***************************************************************************)
ITEMS_PER_PAGE == 10

\* data/celestial_data.json, as loaded (lines 38-40): a bright star with
\* aliases, two Messier objects of which the id of the second starts the id
\* of the first, and a planet.
CELESTIAL_DATA ==
    << [id |-> Some(Chars("9 Alp CMa")), catalog |-> Some(Chars("BrightStar")),
        name_en |-> Some(Chars("Sirius")),
        name_kr |-> Some(<<"U+C2DC", "U+B9AC", "U+C6B0", "U+C2A4">>),
        aliases_en |-> Some(<<Chars("Sirius"), Chars("Dog Star")>>),
        aliases_kr |-> Some(<< <<"U+C2DC", "U+B9AC", "U+C6B0", "U+C2A4">>,
                               <<"U+B291", "U+B300", " ", "U+BCC4">> >>)],
       [id |-> Some(Chars("M31")), catalog |-> Some(Chars("Messier")),
        name_en |-> Some(Chars("Andromeda Galaxy")),
        name_kr |-> Some(<<"U+C548", "U+B4DC", "U+B85C", "U+BA54", "U+B2E4", " ",
                           "U+C740", "U+D558">>)],
       [id |-> Some(Chars("M3")), catalog |-> Some(Chars("Messier")),
        name_en |-> Some(Chars("M3")), name_kr |-> Some(Chars("M3"))],
       [id |-> Some(Chars("planet:mars")), catalog |-> Some(Chars("SolarSystem")),
        name_en |-> Some(Chars("Mars")), name_kr |-> Some(<<"U+D654", "U+C131">>)] >>

\* s.lower().replace(" ", "")
search_key(s) == ReplaceCh(Lower(s), " ", <<>>)
\* obj.get(k, '').lower().replace(" ", "")
obj_key(obj, k) == search_key(IF k \in DOMAIN obj THEN Val(obj[k]) ELSE <<>>)
\* [a.lower().replace(" ", "") for a in obj.get(k, []) if a]
obj_aliases(obj, k) ==
    LET l == IF k \in DOMAIN obj THEN Val(obj[k]) ELSE <<>>
        kept == SelectSeq(l, LAMBDA a : a # <<>>)
    IN  [i \in 1..Len(kept) |-> search_key(kept[i])]
\* The test of the first loop (lines 180-184)
exact_match(obj, search_query) ==
    \/ obj_key(obj, "id") = search_query
    \/ obj_key(obj, "name_en") = search_query
    \/ obj_key(obj, "name_kr") = search_query
    \/ InSeq(search_query, obj_aliases(obj, "aliases_en"))
    \/ InSeq(search_query, obj_aliases(obj, "aliases_kr"))
\* The test of the second loop (lines 201-205)
starts_with_match(obj, search_query) ==
    \/ StartsWith(obj_key(obj, "id"), search_query)
    \/ StartsWith(obj_key(obj, "name_en"), search_query)
    \/ StartsWith(obj_key(obj, "name_kr"), search_query)
    \/ \E i \in 1..Len(obj_aliases(obj, "aliases_en")) :
          StartsWith(obj_aliases(obj, "aliases_en")[i], search_query)
    \/ \E i \in 1..Len(obj_aliases(obj, "aliases_kr")) :
          StartsWith(obj_aliases(obj, "aliases_kr")[i], search_query)
\* The search, in a version whose one loop takes the first object that
\* matches either way.
search_logic_one_pass(input) ==
    LET q == search_key(input)
        hits == {i \in 1..Len(CELESTIAL_DATA) :
                    exact_match(CELESTIAL_DATA[i], q) \/ starts_with_match(CELESTIAL_DATA[i], q)}
    IN  IF input = <<>> \/ hits = {} THEN None ELSE Some(CELESTIAL_DATA[MinOf(hits)])
\* The search (lines 161-207): found_object for the text of the search box.
search_logic(input) ==
    LET q == search_key(input)
        exact == {i \in 1..Len(CELESTIAL_DATA) : exact_match(CELESTIAL_DATA[i], q)}
        starts == {i \in 1..Len(CELESTIAL_DATA) : starts_with_match(CELESTIAL_DATA[i], q)}
    IN  IF input = <<>> THEN None
        ELSE IF exact # {} THEN Some(CELESTIAL_DATA[MinOf(exact)])
        ELSE IF starts # {} THEN Some(CELESTIAL_DATA[MinOf(starts)])
        ELSE None

\* The days the date picker offers, and how many rows an app session adds to
\* and deletes from the table.
Dates == {"2025-01-01", today}
MaxSaved == 1
MaxDeleted == 1
\* The texts typed into the search box.
Queries ==
    { Chars("m3"), Chars("M 3"), Chars("m"), Chars("dog star"), Chars("dogs"),
      Chars("Mars"), Chars("planet:"), Chars("andromeda"), Chars("galaxy"), Chars("xyz"),
      Chars(" "), <<"U+D654", "U+C131">>, <<"U+D654">>, <<"U+B291", "U+B300", "U+BCC4">>,
      Chars("9ALP") }
\* found_object for each text of the runs.
found_objects == [input \in Queries \cup {<<>>} |-> search_logic(input)]

\* One run of the script on session state ss: line 209. The search is taken
\* from the table of its results on the texts of the runs.
script_run(ss, input) == [ss EXCEPT !.found_object = found_objects[input]]

Reverse(seq) == [i \in 1..Len(seq) |-> seq[Len(seq) + 1 - i]]
\* all_observations (lines 265-274): the rows of the selected date, or all
\* rows, the latest first.
all_observations ==
    LET d == session_state.selected_date
    IN  Reverse(SelectSeq(observations, LAMBDA r : d = None \/ r.day = Val(d)))
total_records == Len(all_observations)
total_pages == (total_records + ITEMS_PER_PAGE - 1) \div ITEMS_PER_PAGE
\* The condition of line 281: the list is shown page by page.
paginated == session_state.selected_date = None /\ total_records > ITEMS_PER_PAGE
\* s[a:b] of a list, with a and b not negative
Slice(seq, a, b) ==
    LET hi == IF b < Len(seq) THEN b ELSE Len(seq)
    IN  IF a >= hi THEN <<>> ELSE SubSeq(seq, a + 1, hi)
\* paginated_observations (lines 281-301)
paginated_observations ==
    IF paginated
    THEN Slice(all_observations, session_state.current_page * ITEMS_PER_PAGE,
               session_state.current_page * ITEMS_PER_PAGE + ITEMS_PER_PAGE)
    ELSE all_observations
\* The ids of the rows on the page.
shown_ids == {paginated_observations[i].id : i \in 1..Len(paginated_observations)}
\* The row on the page has the Delete and Edit buttons (line 318 is false).
has_buttons(record_id) ==
    /\ record_id \in shown_ids
    /\ ~(session_state.editing # None /\ Val(session_state.editing).id = record_id)

\* The user changes the text of the search box.
Search ==
    /\ \E q \in Queries \cup {<<>>} :
          /\ q # object_search_input
          /\ object_search_input' = q
          /\ session_state' = script_run(session_state, q)
    /\ UNCHANGED <<pipeline, observations, sqlite_sequence>>

\* The Save button of new_observation_form (lines 222-254): with an object
\* found, a row for it is inserted, found_object is cleared and the script
\* runs again; without one, an error is shown.
Save ==
    /\ Len(SelectSeq(observations, LAMBDA r : r.day = today)) < MaxSaved
    /\ IF session_state.found_object # None
       THEN /\ observations' =
                  Append(observations,
                         [id |-> sqlite_sequence + 1,
                          celestial_id |-> Get(Val(session_state.found_object), "id"),
                          day |-> today])
            /\ sqlite_sequence' = sqlite_sequence + 1
            /\ session_state' = script_run([session_state EXCEPT !.found_object = None],
                                           object_search_input)
       ELSE UNCHANGED <<observations, sqlite_sequence, session_state>>
    /\ UNCHANGED <<pipeline, object_search_input>>

\* delete_record(record_id), from the Delete button of a row on the page
delete_record ==
    /\ sqlite_sequence - Len(observations) < MaxDeleted
    /\ \E record_id \in shown_ids :
          /\ has_buttons(record_id)
          /\ observations' = SelectSeq(observations, LAMBDA r : r.id # record_id)
          /\ session_state' = script_run([session_state EXCEPT !.editing = None],
                                         object_search_input)
    /\ UNCHANGED <<pipeline, sqlite_sequence, object_search_input>>

\* set_edit_mode(record_data), from the Edit button of the first row on the
\* page (lines 353-363)
set_edit_mode ==
    /\ paginated_observations # <<>>
    /\ has_buttons(paginated_observations[1].id)
    /\ session_state' = script_run([session_state EXCEPT
                                       !.editing = Some([id |-> paginated_observations[1].id])],
                                   object_search_input)
    /\ UNCHANGED <<pipeline, observations, sqlite_sequence, object_search_input>>

\* update_record from Save changes, or Cancel (lines 331-336, 87-110), on the
\* row on the page that is edited: the notes and the image are no part of the
\* state, and both leave edit mode.
update_record ==
    /\ session_state.editing # None
    /\ Val(session_state.editing).id \in shown_ids
    /\ session_state' = script_run([session_state EXCEPT !.editing = None],
                                   object_search_input)
    /\ UNCHANGED <<pipeline, observations, sqlite_sequence, object_search_input>>

\* The Previous button (lines 288-291)
PreviousPage ==
    /\ paginated
    /\ session_state.current_page > 0
    /\ session_state' = script_run([session_state EXCEPT !.current_page = @ - 1],
                                   object_search_input)
    /\ UNCHANGED <<pipeline, observations, sqlite_sequence, object_search_input>>

\* The Next button (lines 295-298)
NextPage ==
    /\ paginated
    /\ session_state.current_page < total_pages - 1
    /\ session_state' = script_run([session_state EXCEPT !.current_page = @ + 1],
                                   object_search_input)
    /\ UNCHANGED <<pipeline, observations, sqlite_sequence, object_search_input>>

\* set_selected_date(), when the user picks another day in the date picker
set_selected_date ==
    /\ \E d \in Dates :
          /\ d # session_state.date_picker
          /\ session_state' = script_run([session_state EXCEPT !.date_picker = d,
                                                               !.selected_date = Some(d),
                                                               !.current_page = 0],
                                         object_search_input)
    /\ UNCHANGED <<pipeline, observations, sqlite_sequence, object_search_input>>

\* set_today_date(), from the Today button
set_today_date ==
    /\ session_state' = script_run([session_state EXCEPT !.selected_date = Some(today),
                                                         !.current_page = 0],
                                   object_search_input)
    /\ UNCHANGED <<pipeline, observations, sqlite_sequence, object_search_input>>

\* The state of main while the app runs.
PipelineIdle ==
    /\ args = [messier_file |-> "ok", messier |-> <<>>, bsc5p_file |-> "ok", bsc5p |-> <<>>,
               bsc5p_mag |-> Chars("6.5"), commonnames_only |-> FALSE]
    /\ hangulize = "missing"
    /\ pc = "load_messier"
    /\ messier = <<>>
    /\ bright = <<>>
    /\ solar = <<>>
    /\ idx = 0
    /\ by_id = <<>>
    /\ out = <<>>
    /\ file = None

\* The table as earlier sessions have left it: n rows of an earlier day.
earlier_rows(n) ==
    [i \in 1..n |-> [id |-> i, celestial_id |-> Some(Chars("M3")), day |-> "2025-01-01"]]

\* A new session over a table of 11 or 21 rows.
InitLogbook ==
    /\ PipelineIdle
    /\ \E n \in {11, 21} : observations = earlier_rows(n) /\ sqlite_sequence = n
    /\ session_state = InitialSession
    /\ object_search_input = <<>>

NextLogbook ==
    \/ Search
    \/ Save
    \/ delete_record
    \/ set_edit_mode
    \/ update_record
    \/ PreviousPage
    \/ NextPage
    \/ set_selected_date
    \/ set_today_date

SpecLogbook == InitLogbook /\ [][NextLogbook]_vars

\* A new session over an empty table: the list is never shown page by page.
InitSearch ==
    /\ PipelineIdle
    /\ LogbookIdle

NextSearch ==
    \/ Search
    \/ Save
    \/ delete_record
    \/ set_edit_mode
    \/ update_record
    \/ set_selected_date
    \/ set_today_date

SpecSearch == InitSearch /\ [][NextSearch]_vars

(***************************************************************************)
(* Properties of the pages of the logbook                                  *)
(***************************************************************************)
\* C29 as documented: whenever the list is shown page by page, the page
\* cursor is at least 0 and below the number of pages, and the page shown
\* holds rows.
C29_Original ==
    paginated =>
        /\ 0 <= session_state.current_page
        /\ session_state.current_page < total_pages
        /\ paginated_observations # <<>>
\* C29 as computed: the cursor is never negative and never beyond the pages
\* the table had before its deletions; in a session without a deletion it is
\* below the number of pages and the page holds rows; without pages, every
\* row of the selection is shown.
C29_AsComputed ==
    /\ 0 <= session_state.current_page
    /\ session_state.current_page = 0
          \/ session_state.current_page * ITEMS_PER_PAGE < sqlite_sequence
    /\ paginated /\ sqlite_sequence = Len(observations) =>
          /\ session_state.current_page < total_pages
          /\ paginated_observations # <<>>
    /\ ~paginated => paginated_observations = all_observations
    /\ session_state.selected_date # None => session_state.current_page = 0
\* The only row of the third page was deleted: twenty rows are left, the list
\* is shown page by page, the cursor is on a third page of two, and the page
\* shown is empty.
C29_EmptyPage ==
    /\ paginated
    /\ total_records = 20
    /\ total_pages = 2
    /\ session_state.current_page = 2
    /\ paginated_observations = <<>>

(***************************************************************************)
(* Properties of the search of the logbook                                 *)
(***************************************************************************)
\* The id of the object the search box has found, None without one.
C30_FoundId ==
    IF session_state.found_object = None THEN None
    ELSE Field(Val(session_state.found_object), "id")
\* The text of the search box is q and the object found has the id i.
C30_Finds(q, i) == object_search_input = q => C30_FoundId = Some(Chars(i))
C30_FindsNothing(q) == object_search_input = q => C30_FoundId = None
\* The texts of the catalog that text q, in small letters and without
\* spaces, is compared with for object o.
C30_Texts(o) ==
    {search_key(Val(Field(o, k))) : k \in {"id", "name_en", "name_kr"}}
    \cup UNION { {search_key(Val(Field(o, k))[i]) : i \in 1..Len(Val(Field(o, k)))} :
                    k \in {"aliases_en", "aliases_kr"} \cap DOMAIN o }

\* C30: with a text in the search box, the object found is the first object
\* of the catalog one of whose id, names and aliases equals the text, small
\* and capital letters and spaces aside; when there is none, the first object
\* one of whose id, names and aliases starts with the text; else none. "m3"
\* finds M3 though M31 comes first, "m" finds M31, "galaxy" nothing. A row is
\* added to the table only by a save with an object found, and it is a row
\* for that object.
C30_Search ==
    /\ [](/\ C30_FindsNothing(<<>>)
          /\ C30_Finds(Chars("m3"), "M3")
          /\ C30_Finds(Chars("M 3"), "M3")
          /\ C30_Finds(Chars("m"), "M31")
          /\ C30_Finds(Chars("dog star"), "9 Alp CMa")
          /\ C30_Finds(Chars("dogs"), "9 Alp CMa")
          /\ C30_Finds(<<"U+B291", "U+B300", "U+BCC4">>, "9 Alp CMa")
          /\ C30_Finds(Chars("9ALP"), "9 Alp CMa")
          /\ C30_Finds(Chars("Mars"), "planet:mars")
          /\ C30_Finds(Chars("planet:"), "planet:mars")
          /\ C30_Finds(<<"U+D654", "U+C131">>, "planet:mars")
          /\ C30_Finds(<<"U+D654">>, "planet:mars")
          /\ C30_Finds(Chars("andromeda"), "M31")
          /\ C30_FindsNothing(Chars("galaxy"))
          /\ C30_FindsNothing(Chars("xyz"))
          /\ object_search_input \in Queries \cup {<<>>}
          /\ LET q == search_key(object_search_input)
                 eq == {i \in 1..Len(CELESTIAL_DATA) : q \in C30_Texts(CELESTIAL_DATA[i])}
                 st == {i \in 1..Len(CELESTIAL_DATA) :
                          \E t \in C30_Texts(CELESTIAL_DATA[i]) : StartsWith(t, q)}
             IN  object_search_input # <<>> =>
                    session_state.found_object
                      = (IF eq # {} THEN Some(CELESTIAL_DATA[MinOf(eq)])
                         ELSE IF st # {} THEN Some(CELESTIAL_DATA[MinOf(st)])
                         ELSE None))
    /\ [][observations' # observations /\ Len(observations') >= Len(observations) =>
            /\ session_state.found_object # None
            /\ observations' = Append(observations, observations'[Len(observations')])
            /\ observations'[Len(observations')].celestial_id = C30_FoundId]_vars
\* "m3" is in the search box, M3 is found, and a row for M3 was saved.
C30_Witness ==
    /\ object_search_input = Chars("m3")
    /\ C30_FoundId = Some(Chars("M3"))
    /\ Len(observations) = 1
    /\ observations[1].celestial_id = Some(Chars("M3"))

====
